---- MODULE Spec2Model ----
(***************************************************************************)
(* Verification model of the superfan fan-control daemon:                  *)
(*   superfan/control/manager.py  ControlManager (control loop, safety)    *)
(*   superfan/control/curve.py    StableSpeedCurve, HysteresisCurve        *)
(*   superfan/ipmi/commander.py   IPMICommander (fan commands)             *)
(* One action per public operation or loop iteration; the BMC, the sensor  *)
(* repository and the NVMe drives are the environment, drawn with \E.      *)
(***************************************************************************)
EXTENDS Integers, Sequences, FiniteSets, TLC

(***************************************************************************)
(* Text.  Sensor names and glob patterns are Python strings; the model     *)
(* keeps each as a TLA+ string and spells it out as a character sequence   *)
(* where the code looks inside it (lower(), startswith(), in, re).         *)
(***************************************************************************)
Chars ==
  [ n \in { "CPU1 Temp", "Vcpu1VRM Temp", "System Temp", "FAN1", "FAN2", "FANA",
            "CPU* Temp", "NVMe_*", "NVMe", "temp", "FAN" } |->
    CASE n = "CPU1 Temp"     -> <<"C","P","U","1"," ","T","e","m","p">>
      [] n = "Vcpu1VRM Temp" -> <<"V","c","p","u","1","V","R","M"," ","T","e","m","p">>
      [] n = "System Temp"   -> <<"S","y","s","t","e","m"," ","T","e","m","p">>
      [] n = "FAN1"          -> <<"F","A","N","1">>
      [] n = "FAN2"          -> <<"F","A","N","2">>
      [] n = "FANA"          -> <<"F","A","N","A">>
      [] n = "CPU* Temp"     -> <<"C","P","U","*"," ","T","e","m","p">>
      [] n = "NVMe_*"        -> <<"N","V","M","e","_","*">>
      [] n = "NVMe"          -> <<"N","V","M","e">>
      [] n = "temp"          -> <<"t","e","m","p">>
      [] n = "FAN"           -> <<"F","A","N">> ]

UpperCase == <<"A","B","C","D","E","F","G","H","I","J","K","L","M",
               "N","O","P","Q","R","S","T","U","V","W","X","Y","Z">>
LowerCase == <<"a","b","c","d","e","f","g","h","i","j","k","l","m",
               "n","o","p","q","r","s","t","u","v","w","x","y","z">>

\* str.lower() on one character
LowerChar(c) ==
  IF \E i \in 1..26 : UpperCase[i] = c
  THEN LowerCase[CHOOSE i \in 1..26 : UpperCase[i] = c]
  ELSE c

\* str.lower()
Lower(s) == [i \in 1..Len(s) |-> LowerChar(s[i])]

\* s[i:]  (0-based start, as in Python)
Suffix(s, i) == SubSeq(s, i + 1, Len(s))

\* str.startswith
StartsWith(s, p) == Len(p) <= Len(s) /\ SubSeq(s, 1, Len(p)) = p

\* "p in s" on strings
Contains(s, p) == \E i \in 0..Len(s) : StartsWith(Suffix(s, i), p)

(***************************************************************************)
(* re.compile(base_sensor.replace('*', '.*'), re.IGNORECASE): the only     *)
(* translation is '*' -> '.*'; every other character of the patterns in    *)
(* use is a literal.  PrefixMatch(p, s): p matches some prefix of s.       *)
(***************************************************************************)
RECURSIVE PrefixMatch(_, _)
PrefixMatch(p, s) ==
  IF p = <<>> THEN TRUE
  ELSE IF Head(p) = "*"
       THEN \E k \in 0..Len(s) : PrefixMatch(Tail(p), Suffix(s, k))
       ELSE /\ s # <<>>
            /\ LowerChar(Head(s)) = LowerChar(Head(p))
            /\ PrefixMatch(Tail(p), Tail(s))

SensorNames == {"CPU1 Temp", "Vcpu1VRM Temp", "System Temp", "FAN1", "FAN2", "FANA"}
Patterns == {"System Temp", "NVMe_*", "CPU* Temp"}

\* the text predicates, evaluated once for the names and patterns in use
\* pattern_re.match(name): anchored at the start of the name
ReMatchTable == [p \in Patterns |-> {n \in SensorNames : PrefixMatch(Chars[p], Chars[n])}]
\* pattern_re.search(name): anywhere in the name
ReSearchTable ==
  [p \in Patterns |->
    {n \in SensorNames :
       \E i \in 0..Len(Chars[n]) : PrefixMatch(Chars[p], Suffix(Chars[n], i))}]
\* "temp" in r["name"].lower(), r["name"].startswith("FAN"), "NVMe" in base_sensor
TempNames == {n \in SensorNames : Contains(Lower(Chars[n]), Chars["temp"])}
FanNames == {n \in SensorNames : StartsWith(Chars[n], Chars["FAN"])}
FanANames == {n \in SensorNames : StartsWith(Chars[n], Chars["FANA"])}
NvmePatterns == {p \in Patterns : Contains(Chars[p], Chars["NVMe"])}

ReMatch(pattern, name) == name \in ReMatchTable[pattern]
ReSearch(pattern, name) == name \in ReSearchTable[pattern]

(***************************************************************************)
(* Configuration (yaml.safe_load of the config file).  Zones, thresholds   *)
(* and safety settings are those of the repository's test configuration;   *)
(* fans.board_config.speed_steps is the H12 step table.                    *)
(***************************************************************************)
None == 0 - 1

Zones == {"chassis", "cpu"}

\* iteration order of config["fans"]["zones"] and of fan_curves

ZoneConfig ==
  [ chassis |-> [enabled |-> TRUE, target |-> 55, critical_max |-> 75,
                 sensors |-> <<"System Temp", "NVMe_*">>],
    cpu     |-> [enabled |-> TRUE, target |-> 65, critical_max |-> 85,
                 sensors |-> <<"CPU* Temp">>] ]

WatchdogTimeout == 90
MinWorkingFans == 2
PollingInterval == 30
RestoreOnExit == TRUE

Groups == {"high_rpm", "low_rpm", "cpu"}

\* rpm_ranges of the steps below full speed, and of the full-speed step
LowRanges ==
  [ high_rpm |-> [min |-> 0, max |-> 1820, stable_rpm |-> None],
    low_rpm  |-> [min |-> 0, max |-> 1400, stable_rpm |-> None],
    cpu      |-> [min |-> 0, max |-> 3640, stable_rpm |-> None] ]

\* config["fans"]["board_config"]["speed_steps"], in file order
SpeedSteps ==
  << [name |-> "off",      threshold |-> 0,   rpm_ranges |-> LowRanges],
     [name |-> "very_low", threshold |-> 12,  rpm_ranges |-> LowRanges],
     [name |-> "low",      threshold |-> 25,  rpm_ranges |-> LowRanges],
     [name |-> "medium",   threshold |-> 50,  rpm_ranges |-> LowRanges],
     [name |-> "high",     threshold |-> 75,  rpm_ranges |-> LowRanges],
     [name |-> "full",     threshold |-> 100, rpm_ranges |->
       [ high_rpm |-> [min |-> 980,  max |-> 1820, stable_rpm |-> 1680],
         low_rpm  |-> [min |-> 700,  max |-> 1400, stable_rpm |-> 1400],
         cpu      |-> [min |-> 2520, max |-> 3640, stable_rpm |-> 3640] ]] >>

(***************************************************************************)
(* The environment of one handler run: what the BMC's sensor repository    *)
(* and the NVMe drives report (a world), where "sdr list" starts to fail,  *)
(* which fan command the BMC refuses, and how long the BMC calls block.    *)
(***************************************************************************)
R(n, v, s) == [name |-> n, value |-> v, state |-> s]

GoodFans == << R("FAN1", 1500, "ok"), R("FAN2", 1200, "ok"), R("FANA", 3000, "ok") >>
CoolTemps == << R("CPU1 Temp", 45, "ok"), R("Vcpu1VRM Temp", 45, "ok"),
                R("System Temp", 35, "ok") >>

WorldIds == { "nominal", "cr_state", "hot_cpu", "hot_vrm", "fan_stop",
              "fan_ns", "no_temp", "nvme_hot" }

World ==
  [ w \in WorldIds |->
    CASE w = "nominal"  -> [sdr |-> CoolTemps \o GoodFans, nvme |-> <<>>]
      [] w = "cr_state" -> [sdr |-> << R("CPU1 Temp", 70, "cr"), R("Vcpu1VRM Temp", 45, "ok"),
                                       R("System Temp", 35, "ok") >> \o GoodFans,
                            nvme |-> <<>>]
      [] w = "hot_cpu"  -> [sdr |-> << R("CPU1 Temp", 90, "ok"), R("Vcpu1VRM Temp", 45, "ok"),
                                       R("System Temp", 35, "ok") >> \o GoodFans,
                            nvme |-> <<>>]
      [] w = "hot_vrm"  -> [sdr |-> << R("CPU1 Temp", 45, "ok"), R("Vcpu1VRM Temp", 90, "ok"),
                                       R("System Temp", 35, "ok") >> \o GoodFans,
                            nvme |-> <<>>]
      [] w = "fan_stop" -> [sdr |-> CoolTemps \o << R("FAN1", 0, "ok"), R("FAN2", 0, "ok") >>,
                            nvme |-> <<>>]
      [] w = "fan_ns"   -> [sdr |-> CoolTemps \o << R("FAN1", None, "ns"), R("FAN2", None, "ns"),
                                                    R("FANA", None, "ns") >>,
                            nvme |-> <<>>]
      [] w = "no_temp"  -> [sdr |-> << R("CPU1 Temp", None, "ns"), R("Vcpu1VRM Temp", None, "ns"),
                                       R("System Temp", None, "ns") >> \o GoodFans,
                            nvme |-> <<>>]
      [] w = "nvme_hot" -> [sdr |-> CoolTemps \o GoodFans, nvme |-> <<80>>] ]

\* the call sites of commander.get_sensor_readings() in one handler run, in
\* program order; the call fails at SdrFail and at every later site
SiteRank(s) ==
  IF s = "none" THEN 5 ELSE CHOOSE i \in 1..4 : <<"update", "poll", "verify", "act">>[i] = s
SdrOk(env, site) == SiteRank(site) < SiteRank(env.sdrFail)

\* what "nvme smart-log" does for a drive: it prints a temperature, it prints
\* none, it exits with a status (CalledProcessError, which
\* NVMETemperatureReader.update_readings catches), or it cannot be run
\* (OSError, which it does not catch)
NvmeRaises(run) == run = "os_error"

\* which raw fan command the transport fails
SpeedTxOk(env, zone) == env.txFail \notin {zone, "all"}
ModeTxOk(env) == env.txFail \notin {"mode", "all"}

MaxElapsed == 2
MaxAge == 120

\* a run whose first sensor call already fails reads no world; a run in which
\* the sensor call blocks has no fan command refused; smart-log fails only
\* while everything else is healthy
Envs ==
  { e \in [world : WorldIds, sdrFail : {"none", "update", "poll", "verify", "act"},
            txFail : {"none", "chassis", "cpu", "mode", "all"}, elapsed : 0..MaxElapsed,
            smart_log : {"temperature", "exit_status", "os_error"}] :
      /\ e.sdrFail \in {"update", "poll"} => e.world = "nominal"
      /\ e.smart_log # "temperature" =>
           /\ e.world = "nominal" /\ e.sdrFail = "none"
           /\ e.txFail = "none" /\ e.elapsed = 0
      /\ e.elapsed > 0 => e.txFail = "none" }

Min2(a, b) == IF a < b THEN a ELSE b
Max2(a, b) == IF a > b THEN a ELSE b

RECURSIVE SeqSum(_)
SeqSum(s) == IF s = <<>> THEN 0 ELSE Head(s) + SeqSum(Tail(s))
SeqMin(s) == CHOOSE x \in {s[i] : i \in 1..Len(s)} : \A j \in 1..Len(s) : x <= s[j]
Values(rs) == [i \in 1..Len(rs) |-> rs[i].value]
Abs(x) == IF x < 0 THEN 0 - x ELSE x

(***************************************************************************)
(* ControlManager._verify_fan_speeds                                       *)
(***************************************************************************)
\* the fan group of a FAN* reading
FanGroup(name) ==
  IF name \in FanANames THEN "cpu"
  ELSE IF name \in {"FAN1", "FAN5"} THEN "high_rpm"
  ELSE "low_rpm"

\* the step whose ranges the group is checked against: with min_speed, the
\* step whose threshold equals it; without, the first step whose [min, max]
\* holds the group's average RPM; failing both, the step whose stable_rpm is
\* closest to the average; failing that, the full-speed step
CurrentStep(g, rpms, min_speed) ==
  LET n == Len(rpms)
      total == SeqSum(rpms)
      exact == { i \in 1..Len(SpeedSteps) :
                   IF min_speed # None
                   THEN SpeedSteps[i].threshold = min_speed
                   ELSE /\ SpeedSteps[i].rpm_ranges[g].min * n <= total
                        /\ total <= SpeedSteps[i].rpm_ranges[g].max * n }
      withStable == { i \in 1..Len(SpeedSteps) : SpeedSteps[i].rpm_ranges[g].stable_rpm # None }
      diff(i) == Abs(total - SpeedSteps[i].rpm_ranges[g].stable_rpm * n)
      closest == CHOOSE i \in withStable :
                   \A j \in withStable : diff(i) < diff(j) \/ (diff(i) = diff(j) /\ i <= j)
  IN IF exact # {} THEN SpeedSteps[CHOOSE i \in exact : \A j \in exact : i <= j]
     ELSE IF withStable # {} THEN SpeedSteps[closest]
     ELSE SpeedSteps[6]

\* _verify_fan_speeds(min_speed), its sensor poll made at call site `site`
VerifyFanSpeeds(min_speed, env, site) ==
  IF ~SdrOk(env, site) THEN FALSE
  ELSE
    LET readings == World[env.world].sdr
        fan_readings == SelectSeq(readings, LAMBDA r : r.name \in FanNames)
        GroupFans(g) == SelectSeq(fan_readings,
                          LAMBDA r : r.state # "ns" /\ r.value # None /\ FanGroup(r.name) = g)
        working_fans == Len(GroupFans("high_rpm")) + Len(GroupFans("low_rpm"))
                          + Len(GroupFans("cpu"))
    IN IF fan_readings = <<>> THEN FALSE
       ELSE IF \E g \in Groups :
                 /\ GroupFans(g) # <<>>
                 /\ min_speed # None
                 /\ SeqMin(Values(GroupFans(g)))
                      < CurrentStep(g, Values(GroupFans(g)), min_speed).rpm_ranges[g].min
            THEN FALSE
       ELSE working_fans >= MinWorkingFans

(***************************************************************************)
(* ControlManager._check_safety                                            *)
(***************************************************************************)
SeqToSet(s) == { s[i] : i \in 1..Len(s) }
SetMax(S) == CHOOSE x \in S : \A y \in S : x >= y

\* zone_temps of the safety check: pattern_re.match on the name, any reading
\* with a value
SafetyZoneTemps(zone, w) ==
  LET base_sensors == ZoneConfig[zone].sensors
  IN UNION { { r.value : r \in { x \in SeqToSet(w.sdr) :
                                    /\ x.name \in TempNames
                                    /\ ReMatch(base_sensors[i], x.name)
                                    /\ x.value # None } }
             \cup (IF base_sensors[i] \in NvmePatterns THEN SeqToSet(w.nvme) ELSE {})
             : i \in 1..Len(base_sensors) }

\* a reading in state cr, flagged only when it is also at or above 85 degrees
CriticalStateIfHot(readings) ==
  \E i \in 1..Len(readings) : readings[i].state = "cr" /\ readings[i].value >= 85

\* any reading whose state is cr
CriticalState(readings) ==
  \E i \in 1..Len(readings) : readings[i].state = "cr"

\* the watchdog reading the timeout as minutes
WatchdogExpiredMinutes(reading_age) == reading_age > WatchdogTimeout * 60

\* reading_age > config["safety"]["watchdog_timeout"]
WatchdogExpired(reading_age) == reading_age > WatchdogTimeout

\* the result of _check_safety: safe, the reason of an unsafe verdict, and
\* age = time.time() - _last_valid_reading when the check returns.
\* age is the value before the call; the sensor call of the check blocks for
\* env.elapsed watchdog periods.
CheckSafety(age, env) ==
  LET el == env.elapsed * WatchdogTimeout
      w == World[env.world]
      temp_readings == SelectSeq(w.sdr, LAMBDA r : r.name \in TempNames)
      all_temps == { r.value : r \in { x \in SeqToSet(temp_readings) : x.value # None } }
                     \cup SeqToSet(w.nvme)
      reading_age == el
      Unsafe(why, a) == [safe |-> FALSE, reason |-> why, age |-> Min2(a, MaxAge)]
  IN IF ~SdrOk(env, "update") THEN Unsafe("error", age + el)
     ELSE IF NvmeRaises(env.smart_log) THEN Unsafe("error", age + el)
     ELSE IF ~SdrOk(env, "poll") THEN Unsafe("error", el)
     ELSE IF CriticalState(w.sdr) THEN Unsafe("cr", el)
     ELSE IF all_temps = {} THEN Unsafe("no_temps", el)
     ELSE IF \E z \in Zones :
               /\ ZoneConfig[z].enabled
               /\ SafetyZoneTemps(z, w) # {}
               /\ SetMax(SafetyZoneTemps(z, w)) >= ZoneConfig[z].critical_max
          THEN Unsafe("critical_max", el)
     ELSE IF WatchdogExpired(reading_age) THEN Unsafe("watchdog", el)
     ELSE IF ~VerifyFanSpeeds(None, env, "verify") THEN Unsafe("fans", el)
     ELSE [safe |-> TRUE, reason |-> "safe", age |-> Min2(el, MaxAge)]

(***************************************************************************)
(* ControlManager._get_zone_temperature                                    *)
(***************************************************************************)
\* the temperatures the zone counts: pattern_re.search on the name, readings
\* with a value and a state other than ns
BinderZoneTemps(zone, w) ==
  LET base_sensors == ZoneConfig[zone].sensors
  IN UNION { { r.value : r \in { x \in SeqToSet(w.sdr) :
                                    /\ x.name \in TempNames
                                    /\ x.value # None /\ x.state # "ns"
                                    /\ ReSearch(base_sensors[i], x.name) } }
             \cup (IF base_sensors[i] \in NvmePatterns THEN SeqToSet(w.nvme) ELSE {})
             : i \in 1..Len(base_sensors) }

\* raised: a sensor poll failed; delta: None when no valid temperature
GetZoneTemperature(zone, env) ==
  IF ~SdrOk(env, "act") THEN [raised |-> TRUE, delta |-> None]
  ELSE LET temps == BinderZoneTemps(zone, World[env.world])
       IN IF temps = {} THEN [raised |-> FALSE, delta |-> None]
          ELSE [raised |-> FALSE,
                delta |-> Max2(0, SetMax(temps) - ZoneConfig[zone].target)]

(***************************************************************************)
(* StableSpeedCurve and HysteresisCurve (curve.py)                         *)
(***************************************************************************)
STABLE_POINTS ==
  << [temp |-> 40, speed |-> 100, hex |-> "ff"],
     [temp |-> 35, speed |-> 75,  hex |-> "60"],
     [temp |-> 30, speed |-> 50,  hex |-> "32"] >>

\* StableSpeedCurve.__init__ defaults
CurveMinSpeed == 50
CurveMaxSpeed == 100

\* StableSpeedCurve.__init__: self.points, the stable points within
\* [min_speed, max_speed]
StableCurvePoints(min_speed, max_speed) ==
  SelectSeq(STABLE_POINTS, LAMBDA pt : min_speed <= pt.speed /\ pt.speed <= max_speed)

\* StableSpeedCurve.get_speed on a curve with these points: the first point,
\* in list order, whose temp is at least the delta; the first point when
\* there is none
StableGet(points, temp_delta) ==
  LET hits == { i \in 1..Len(points) : temp_delta <= points[i].temp }
      point == IF points = <<>> THEN STABLE_POINTS[1]
               ELSE IF hits # {} THEN points[CHOOSE i \in hits : \A j \in hits : i <= j]
               ELSE points[1]
  IN [speed |-> point.speed, hex_speed |-> point.hex]

\* get_speed of the curve the manager builds
StableGetSpeed(temp_delta) ==
  StableGet(StableCurvePoints(CurveMinSpeed, CurveMaxSpeed), temp_delta)

\* config["temperature"]["hysteresis"]
Hysteresis == 3

NewCurve == [last_temp |-> None, last_speed |-> [speed |-> None, hex_speed |-> "none"]]

\* a hysteresis that re-evaluates only when the delta moved by more than the
\* width
HysteresisStrict(c, temp_delta, hysteresis, speed_info) ==
  IF c.last_temp = None \/ Abs(temp_delta - c.last_temp) > hysteresis
  THEN [info |-> speed_info, curve |-> [last_temp |-> temp_delta, last_speed |-> speed_info]]
  ELSE [info |-> c.last_speed, curve |-> c]

\* HysteresisCurve.get_speed: the result and the curve's memory afterwards;
\* speed_info is what the base curve gives for temp_delta
HysteresisGet(c, temp_delta, hysteresis, speed_info) ==
  IF c.last_temp = None \/ Abs(temp_delta - c.last_temp) >= hysteresis
  THEN [info |-> speed_info, curve |-> [last_temp |-> temp_delta, last_speed |-> speed_info]]
  ELSE [info |-> c.last_speed, curve |-> c]

\* the manager's curves: a StableSpeedCurve under the configured hysteresis
HystGetSpeed(c, temp_delta) ==
  HysteresisGet(c, temp_delta, Hysteresis, StableGetSpeed(temp_delta))

(***************************************************************************)
(* LinearCurve and StepCurve (curve.py).  Deltas and the speeds of the     *)
(* points are integers; an interpolated speed is the fraction num / den,   *)
(* den > 0.                                                                *)
(***************************************************************************)
\* sorted(points) for points with distinct temperatures
SortedPoints(points) ==
  [i \in 1..Cardinality(points) |->
     CHOOSE pt \in points : Cardinality({q \in points : q.temp < pt.temp}) = i - 1]

\* a curve that returns the speed as computed
Unclamped(min_speed, max_speed, speed) == speed

\* max(self.min_speed, min(self.max_speed, speed))
Clamp(min_speed, max_speed, speed) ==
  LET upper == IF max_speed * speed.den < speed.num
               THEN [num |-> max_speed, den |-> 1] ELSE speed
  IN IF min_speed * upper.den > upper.num THEN [num |-> min_speed, den |-> 1] ELSE upper

\* bisect.bisect_right([p[0] for p in self.points], temp_delta)
BisectRight(points, temp_delta) ==
  Cardinality({i \in 1..Len(points) : points[i].temp <= temp_delta})

\* LinearCurve.get_speed
LinearGetSpeed(c, temp_delta) ==
  LET n == Len(c.points)
      idx == BisectRight(c.points, temp_delta)
      p1 == c.points[idx]
      p2 == c.points[idx + 1]
      Whole(x) == [num |-> x, den |-> 1]
  IN IF n = 0 THEN Whole(100)
     ELSE IF temp_delta <= c.points[1].temp
          THEN Clamp(c.min_speed, c.max_speed, Whole(c.points[1].speed))
     ELSE IF temp_delta >= c.points[n].temp
          THEN Clamp(c.min_speed, c.max_speed, Whole(c.points[n].speed))
     ELSE Clamp(c.min_speed, c.max_speed,
                [num |-> p1.speed * (p2.temp - p1.temp)
                           + (temp_delta - p1.temp) * (p2.speed - p1.speed),
                 den |-> p2.temp - p1.temp])

\* StepCurve.get_speed
StepGetSpeed(c, temp_delta) ==
  LET idx == BisectRight(c.points, temp_delta)
      Whole(x) == [num |-> x, den |-> 1]
  IN IF Len(c.points) = 0 THEN Whole(100)
     ELSE IF idx = 0 THEN Clamp(c.min_speed, c.max_speed, Whole(c.points[1].speed))
     ELSE Clamp(c.min_speed, c.max_speed, Whole(c.points[idx].speed))

\* FanCurve.get_speed of the curve object c; of a StableSpeedCurve the
\* 'speed' entry of the result
CurveGet(c, temp_delta) ==
  CASE c.kind = "linear" -> LinearGetSpeed(c, temp_delta)
    [] c.kind = "step"   -> StepGetSpeed(c, temp_delta)
    [] c.kind = "stable" -> [num |-> StableGet(c.points, temp_delta).speed, den |-> 1]

\* a curve object and the HysteresisCurve around it: the base curve's fields,
\* the hysteresis and its memory, and the last call made (its delta, its
\* result, and whether it went through the HysteresisCurve)
CurveObject(kind, points, min_speed, max_speed) ==
  [kind |-> kind, points |-> points, min_speed |-> min_speed, max_speed |-> max_speed,
   hysteresis |-> 0, last_temp |-> None, last_speed |-> [num |-> None, den |-> 1],
   delta |-> None, out |-> [num |-> None, den |-> 1], via |-> "-"]

\* the sensor readers after construction: empty histories, nothing polled,
\* no call made
NoReaders ==
  [ipmi |-> [n \in {"CPU1 Temp"} |-> <<>>], nvme |-> <<>>, polled |-> <<>>,
   op |-> "-", raised |-> FALSE, asked |-> "-",
   stats |-> [some |-> FALSE, current |-> None, min |-> None, max |-> None]]

\* LinearCurve(points, min_speed, max_speed) and StepCurve(steps, min_speed,
\* max_speed); the kind ValueError stands for the exception
NewPointCurve(kind, points, min_speed, max_speed) ==
  IF \/ points = {}
     \/ ~(0 <= min_speed /\ min_speed <= 100)
     \/ ~(0 <= max_speed /\ max_speed <= 100)
     \/ min_speed > max_speed
     \/ \E a, b \in points : a # b /\ a.temp = b.temp
     \/ \E a \in points : ~(0 <= a.speed /\ a.speed <= 100) \/ a.temp < 0
  THEN CurveObject("ValueError", <<>>, min_speed, max_speed)
  ELSE CurveObject(kind, SortedPoints(points), min_speed, max_speed)

\* StableSpeedCurve(min_speed, max_speed); the kind ValueError stands for the
\* exception
NewStableCurve(min_speed, max_speed) ==
  IF \/ ~(50 <= min_speed /\ min_speed <= 100)
     \/ ~(50 <= max_speed /\ max_speed <= 100)
     \/ min_speed > max_speed
     \/ StableCurvePoints(min_speed, max_speed) = <<>>
  THEN CurveObject("ValueError", <<>>, min_speed, max_speed)
  ELSE CurveObject("stable", StableCurvePoints(min_speed, max_speed), min_speed, max_speed)

\* the curves under test: the point lists of the repository's curve tests,
\* a list with falling speeds and a single point, under several speed
\* limits, each wrapped as HysteresisCurve(base_curve, hysteresis)
CurveObjects ==
  LET Pt(t, v) == [temp |-> t, speed |-> v]
      PointSets == { {Pt(0, 30), Pt(10, 50), Pt(20, 70), Pt(30, 100)},
                     {Pt(25, 0), Pt(5, 100)},
                     {Pt(0, 50)},
                     {} }
      Limits == { <<0, 100>>, <<20, 90>>, <<40, 60>>, <<60, 60>>, <<50, 100>>,
                  <<75, 100>>, <<50, 75>>, <<90, 20>> }
      built == { NewPointCurve(k, ps, l[1], l[2]) :
                   k \in {"linear", "step"}, ps \in PointSets, l \in Limits }
                 \cup { NewStableCurve(l[1], l[2]) : l \in Limits }
  IN { [c EXCEPT !.hysteresis = Abs(h)] :
         c \in {b \in built : b.kind # "ValueError"}, h \in {0, 3, 0 - 5} }

\* the deltas the curves are called with
DeltaValues == {0 - 10, 0, 4, 5, 7, 10, 14, 15, 16, 25, 30, 36, 41}

(***************************************************************************)
(* IPMICommander.set_fan_mode, set_fan_speed (commander.py)                *)
(***************************************************************************)
\* sorted(STABLE_SPEEDS.keys()) and the hex of each point
StablePoints == <<0, 12, 25, 50, 75, 100>>
StableHex(pt) ==
  CASE pt = 100 -> "ff" [] pt = 75 -> "60" [] pt = 50 -> "40"
    [] pt = 25 -> "20" [] pt = 12 -> "10" [] pt = 0 -> "00"

\* min(stable_points, key=lambda x: abs(x - speed_percent)): the first of the
\* nearest points
NearestPoint(speed_percent) ==
  LET i == CHOOSE a \in 1..Len(StablePoints) :
             \A b \in 1..Len(StablePoints) :
               \/ Abs(StablePoints[a] - speed_percent) < Abs(StablePoints[b] - speed_percent)
               \/ /\ Abs(StablePoints[a] - speed_percent) = Abs(StablePoints[b] - speed_percent)
                  /\ a <= b
  IN StablePoints[i]

\* the H12 step chosen for a requested percent
H12Step(speed_percent) ==
  IF speed_percent < 12 THEN [hex |-> "00", actual |-> 0]
  ELSE IF speed_percent < 25 THEN [hex |-> "10", actual |-> 12]
  ELSE IF speed_percent < 50 THEN [hex |-> "20", actual |-> 25]
  ELSE IF speed_percent < 75 THEN [hex |-> "40", actual |-> 50]
  ELSE IF speed_percent < 85 THEN [hex |-> "60", actual |-> 75]
  ELSE [hex |-> "ff", actual |-> 100]

\* IPMICommander.FAN_RANGES: min per group
FanRangeMin == [g \in Groups |-> 0]

\* set_fan_speed(speed_percent, zone).  raised: the call raises; sent: the
\* raw speed command reached the BMC; hex: its speed byte; autos: how many
\* times the call itself falls back to set_auto_mode()
SetFanSpeed(board, speed_percent, zone, env) ==
  LET h12 == H12Step(speed_percent)
      new_fans == SelectSeq(World[env.world].sdr, LAMBDA r : r.name \in FanNames)
      working_fans == SelectSeq(new_fans, LAMBDA r : r.value # None /\ r.value > 0)
      Res(raised, sent, hex, autos) ==
        [raised |-> raised, sent |-> sent, hex |-> hex, autos |-> autos]
  IN IF board = "H12"
     THEN IF ~SpeedTxOk(env, zone) THEN Res(TRUE, FALSE, h12.hex, 1)
          ELSE IF ~SdrOk(env, "act") THEN Res(TRUE, TRUE, h12.hex, 1)
          ELSE IF Len(working_fans) < 2 THEN Res(TRUE, TRUE, h12.hex, 2)
          ELSE IF \E i \in 1..Len(working_fans) :
                    working_fans[i].value < FanRangeMin[FanGroup(working_fans[i].name)]
               THEN Res(TRUE, TRUE, h12.hex, 2)
          ELSE Res(FALSE, TRUE, h12.hex, 0)
     ELSE IF ~SpeedTxOk(env, zone) THEN Res(TRUE, FALSE, StableHex(NearestPoint(speed_percent)), 0)
          ELSE Res(FALSE, TRUE, StableHex(NearestPoint(speed_percent)), 0)

(***************************************************************************)
(* The manager's handlers work on a record m of the manager's fields and   *)
(* the BMC's state; m.calls lists the commander calls the handler made and  *)
(* m.raised tells that the last call raised.                               *)
(***************************************************************************)
ModeCall(mode, ok) ==
  [op |-> "set_fan_mode", speed |-> None, mode |-> mode, zone |-> "-", ok |-> ok]

\* self.commander.set_fan_speed(speed, zone=zone)
DoSetFanSpeed(m, board, speed, zone, env) ==
  LET r == SetFanSpeed(board, speed, zone, env)
      call == [op |-> "set_fan_speed", speed |-> speed, mode |-> "-", zone |-> zone,
               ok |-> ~r.raised]
  IN [m EXCEPT !.calls = Append(@, call),
               !.raised = r.raised,
               !.bmc_duty[zone] = IF r.sent THEN r.hex ELSE @,
               !.bmc_mode = IF r.autos > 0 /\ ModeTxOk(env) THEN "STANDARD" ELSE @]

\* self.commander.set_manual_mode() / set_auto_mode()
DoSetFanMode(m, mode, env) ==
  [m EXCEPT !.calls = Append(@, ModeCall(mode, ModeTxOk(env))),
            !.raised = ~ModeTxOk(env),
            !.bmc_mode = IF ModeTxOk(env) THEN mode ELSE @]

(***************************************************************************)
(* ControlManager._emergency_action                                        *)
(***************************************************************************)
\* the except branch: try set_auto_mode(), swallow its failure
EmergencyFallback(m, env) == [DoSetFanMode(m, "STANDARD", env) EXCEPT !.raised = FALSE]

EmergencyAction(m0, board, env) ==
  LET m == [m0 EXCEPT !.raised = FALSE, !.emergency_ran = TRUE]
      c1 == DoSetFanSpeed(m, board, 100, "chassis", env)
      c2 == DoSetFanSpeed(c1, board, 100, "cpu", env)
      verified == VerifyFanSpeeds(90, env, "act")
      v == [c2 EXCEPT !.everify = IF verified THEN "pass" ELSE "fail"]
      auto == DoSetFanMode(v, "STANDARD", env)
  IN IF c1.raised THEN EmergencyFallback(c1, env)
     ELSE IF c2.raised THEN EmergencyFallback(c2, env)
     ELSE IF verified THEN [v EXCEPT !.in_emergency = TRUE]
     ELSE IF auto.raised THEN EmergencyFallback(auto, env)
     ELSE [auto EXCEPT !.in_emergency = TRUE]

(***************************************************************************)
(* ControlManager._control_loop: one iteration                             *)
(***************************************************************************)
\* the body of "for zone_name, curve in self.fan_curves.items()"
\* the zone update with every target sent, whatever the recorded speed
ChangeGateOpen(target_speed, current_speed) == TRUE

\* "if abs(target_speed - current_speed) >= 5"
ChangeGate(target_speed, current_speed) == Abs(target_speed - current_speed) >= 5

\* a zone update that records the target before it dispatches the command
UpdateZoneRecordFirst(m, board, zone, env) ==
  LET zt == GetZoneTemperature(zone, env)
      h == HystGetSpeed(m.curves[zone], zt.delta)
      mc == [m EXCEPT !.curves[zone] = h.curve]
      target_speed == h.info.speed
      current_speed == IF m.current_speeds[zone] = None THEN 0 ELSE m.current_speeds[zone]
      sent == DoSetFanSpeed([mc EXCEPT !.updates = @ + 1, !.current_speeds[zone] = target_speed],
                            board, target_speed, zone, env)
  IN IF zt.raised THEN [m EXCEPT !.raised = TRUE]
     ELSE IF zt.delta = None THEN m
     ELSE IF ChangeGate(target_speed, current_speed) THEN sent
          ELSE mc

\* m.updates counts the set_fan_speed calls made by the zone loop
UpdateZone(m, board, zone, env) ==
  LET zt == GetZoneTemperature(zone, env)
      h == HystGetSpeed(m.curves[zone], zt.delta)
      mc == [m EXCEPT !.curves[zone] = h.curve]
      target_speed == h.info.speed
      current_speed == IF m.current_speeds[zone] = None THEN 0 ELSE m.current_speeds[zone]
      sent == DoSetFanSpeed([mc EXCEPT !.updates = @ + 1], board, target_speed, zone, env)
  IN IF zt.raised THEN [m EXCEPT !.raised = TRUE]
     ELSE IF zt.delta = None THEN m
     ELSE IF ChangeGate(target_speed, current_speed)
          THEN IF sent.raised THEN sent
               ELSE [sent EXCEPT !.current_speeds[zone] = target_speed]
          ELSE mc

RECURSIVE UpdateZones(_, _, _, _)
UpdateZones(m, board, zones, env) ==
  IF zones = <<>> \/ m.raised THEN m
  ELSE UpdateZones(UpdateZone(m, board, Head(zones), env), board, Tail(zones), env)

EnabledZones == SelectSeq(<<"chassis", "cpu">>, LAMBDA z : ZoneConfig[z].enabled)

\* an iteration that runs the zone loop before it looks at the safety check
ControlLoopIterationZonesFirst(m0, board, env) ==
  LET cs == CheckSafety(m0.age, env)
      m == [m0 EXCEPT !.safe = cs.safe, !.reason = cs.reason, !.age_eval = cs.age,
                      !.age = cs.age]
      cleared == [m EXCEPT !.in_emergency = FALSE]
      updated == UpdateZones(cleared, board, EnabledZones, env)
      Sleep(x) == [x EXCEPT !.slept = TRUE, !.age = Min2(@ + PollingInterval, MaxAge)]
  IN IF ~cs.safe THEN EmergencyAction([updated EXCEPT !.in_emergency = m.in_emergency], board, env)
     ELSE IF updated.raised
          THEN Sleep([EmergencyAction(updated, board, env) EXCEPT !.err = TRUE])
          ELSE Sleep(updated)

ControlLoopIteration(m0, board, env) ==
  LET cs == CheckSafety(m0.age, env)
      m == [m0 EXCEPT !.safe = cs.safe, !.reason = cs.reason, !.age_eval = cs.age,
                      !.age = cs.age]
      cleared == [m EXCEPT !.in_emergency = FALSE]
      updated == UpdateZones(cleared, board, EnabledZones, env)
      Sleep(x) == [x EXCEPT !.slept = TRUE, !.age = Min2(@ + PollingInterval, MaxAge)]
  IN IF ~cs.safe THEN EmergencyAction(m, board, env)
     ELSE IF updated.raised
          THEN Sleep([EmergencyAction(updated, board, env) EXCEPT !.err = TRUE])
          ELSE Sleep(updated)

(***************************************************************************)
(* ControlManager.start and ControlManager.stop                            *)
(***************************************************************************)
\* the body of the priming loop of start()
PrimeZone(m, board, zone, env) ==
  LET zt == GetZoneTemperature(zone, env)
      h == HystGetSpeed(m.curves[zone], IF zt.delta = None THEN 0 ELSE zt.delta)
      mc == [m EXCEPT !.curves[zone] = h.curve]
      speed == IF zt.delta = None THEN 50 ELSE h.info.speed
      sent == DoSetFanSpeed(mc, board, speed, zone, env)
  IN IF zt.raised THEN [m EXCEPT !.raised = TRUE]
     ELSE IF sent.raised THEN sent
     ELSE [sent EXCEPT !.current_speeds[zone] = speed]

RECURSIVE PrimeZones(_, _, _, _)
PrimeZones(m, board, zones, env) ==
  IF zones = <<>> \/ m.raised THEN m
  ELSE PrimeZones(PrimeZone(m, board, Head(zones), env), board, Tail(zones), env)

\* start() on a manager that is not running; m.raised: start() raised
StartHandler(m, board, env) ==
  LET manual == DoSetFanMode(m, "FULL", env)
  IN IF manual.raised THEN manual
     ELSE PrimeZones(manual, board, EnabledZones, env)

\* stop() on a running manager, after the worker is joined
StopHandler(m, env) ==
  IF RestoreOnExit
  THEN [DoSetFanMode(m, "STANDARD", env) EXCEPT !.raised = FALSE]
  ELSE m

(***************************************************************************)
(* State                                                                   *)
(***************************************************************************)
VARIABLES
  running,         \* ControlManager._running
  in_emergency,    \* ControlManager._in_emergency
  current_speeds,  \* ControlManager.current_speeds[zone]['speed'], None if unset
  curves,          \* ControlManager.fan_curves[zone]: the hysteresis memory
  reading_age,     \* time.time() - ControlManager._last_valid_reading
  board_gen,       \* IPMICommander.board_gen
  bmc_mode,        \* the fan mode the BMC is in
  bmc_duty,        \* the speed byte the BMC last accepted for each zone
  last,            \* the last handler run: its environment and what it did
  cx,              \* the command IPMICommander is executing: its origin, its
                   \* tokens, validation's verdict and the transport attempts
  th,              \* the threads: ControlManager._lock, _control_thread, where
                   \* each caller stands and where each worker thread stands
  cv,              \* a FanCurve object with the HysteresisCurve around it
  sr               \* the sensor readers: SensorReader and NVMETemperatureReader

vars == <<running, in_emergency, current_speeds, curves, reading_age, board_gen,
          bmc_mode, bmc_duty, last, cx, th, cv, sr>>

\* the threads that call start(), stop() and get_status(), and the thread
\* objects start() can create
Callers == {"t1", "t2"}
Workers == {"w1", "w2"}

\* after construction: the lock is free, there is no worker thread
IdleTh == [lock |-> "-", pc |-> [t \in Callers |-> "idle"],
           worker |-> [w \in Workers |-> "none"], control_thread |-> "-"]

\* no command in execution
NoApi == [op |-> "-", percent |-> None, zone |-> "-", mode |-> "-"]
IdleCx == [api |-> NoApi, cmd |-> <<>>, status |-> "idle", verdict |-> "-",
           invocations |-> 0, last_outcome |-> "-", fallbacks |-> 0]


QuietEnv ==
  [world |-> "nominal", sdrFail |-> "none", txFail |-> "none", elapsed |-> 0,
   smart_log |-> "temperature"]

\* the manager's fields as the record the handlers work on
Manager ==
  [ in_emergency |-> in_emergency, current_speeds |-> current_speeds, curves |-> curves,
    age |-> reading_age, bmc_mode |-> bmc_mode, bmc_duty |-> bmc_duty,
    calls |-> <<>>, raised |-> FALSE, safe |-> TRUE, reason |-> "-", age_eval |-> 0,
    err |-> FALSE, everify |-> "n/a", emergency_ran |-> FALSE, slept |-> FALSE,
    updates |-> 0 ]

Log(op, env, m) ==
  [ op |-> op, world |-> env.world, sdrFail |-> env.sdrFail, smart_log |-> env.smart_log,
    safe |-> m.safe, reason |-> m.reason, age_eval |-> m.age_eval,
    calls |-> m.calls, raised |-> m.raised, err |-> m.err, everify |-> m.everify,
    emergency_ran |-> m.emergency_ran, slept |-> m.slept, updates |-> m.updates ]

\* write the handler's result back
Commit(op, env, m) ==
  /\ in_emergency' = m.in_emergency
  /\ current_speeds' = m.current_speeds
  /\ curves' = m.curves
  /\ reading_age' = m.age
  /\ bmc_mode' = m.bmc_mode
  /\ bmc_duty' = m.bmc_duty
  /\ last' = Log(op, env, m)

Init ==
  /\ running = FALSE
  /\ in_emergency = FALSE
  /\ current_speeds = [z \in Zones |-> None]
  /\ curves = [z \in Zones |-> NewCurve]
  /\ reading_age = 0
  /\ board_gen \in {"H12", "X11"}
  /\ bmc_mode = "STANDARD"
  /\ bmc_duty = [z \in Zones |-> "none"]
  /\ last = Log("init", QuietEnv, Manager)
  /\ cx = IdleCx
  /\ th = IdleTh
  /\ cv = CurveObject("-", <<>>, 0, 0)
  /\ sr = NoReaders

\* start() while stopped
Start ==
  /\ ~running
  /\ \E env \in {e \in Envs : e.elapsed = 0 /\ e.sdrFail \in {"none", "act"}
                                 /\ e.smart_log = "temperature"} :
       \E m \in {StartHandler(Manager, board_gen, env)} :
          /\ Commit("start", env, m)
          /\ running' = ~m.raised
  /\ UNCHANGED <<board_gen, cx, th, cv, sr>>

\* one iteration of the worker's loop
Tick ==
  /\ running
  /\ \E env \in Envs :
       \E m \in {ControlLoopIteration(Manager, board_gen, env)} :
          Commit("tick", env, m)
  /\ UNCHANGED <<running, board_gen, cx, th, cv, sr>>

\* stop() while running
Stop ==
  /\ running
  /\ \E env \in {e \in Envs : e.elapsed = 0 /\ e.sdrFail = "none" /\ e.world = "nominal"
                                 /\ e.smart_log = "temperature"} :
       \E m \in {StopHandler(Manager, env)} : Commit("stop", env, m)
  /\ running' = FALSE
  /\ UNCHANGED <<board_gen, cx, th, cv, sr>>

Next == Start \/ Tick \/ Stop

Spec == Init /\ [][Next]_vars

(***************************************************************************)
(* Properties of the control loop                                          *)
(***************************************************************************)
\* the last handler run was a loop iteration
Ticked == last.op = "tick"

\* the safety check of the last iteration got its sensor poll
PollTaken == last.sdrFail \notin {"update", "poll"}

\* the sensor poll of the last handler run
LastPoll == World[last.world].sdr

Issued(calls, speed, zone) ==
  \E i \in 1..Len(calls) :
    /\ calls[i].op = "set_fan_speed"
    /\ calls[i].speed = speed
    /\ calls[i].zone = zone

IssuedMode(calls, mode) ==
  \E i \in 1..Len(calls) : calls[i].op = "set_fan_mode" /\ calls[i].mode = mode

\* C1: in every loop iteration whose safety check fails, set_fan_speed(100) is
\* issued for zone chassis and for zone cpu and the status reports
\* emergency = true.
C1_UnsafeTickCommandsBothZones ==
  (Ticked /\ ~last.safe) =>
    /\ Issued(last.calls, 100, "chassis")
    /\ Issued(last.calls, 100, "cpu")
    /\ in_emergency

\* C2: if the sensor poll of a safety evaluation contains a reading whose
\* state is cr, the safety check returns unsafe, whatever the reading's value
\* and the other readings.
C2_CriticalStateIsUnsafe ==
  (Ticked /\ PollTaken /\ \E i \in 1..Len(LastPoll) : LastPoll[i].state = "cr")
    => ~last.safe

\* a poll with a cr reading below every critical_max was judged
C2_Witness ==
  /\ Ticked /\ PollTaken
  /\ \E i \in 1..Len(LastPoll) :
       /\ LastPoll[i].state = "cr"
       /\ \A z \in Zones : LastPoll[i].value < ZoneConfig[z].critical_max
  /\ last.reason = "cr"
  /\ ~last.safe

\* C3: for every enabled zone, if a valid sensor that the zone's temperature
\* counts reads at or above the zone's critical_max, the safety check returns
\* unsafe.
C3_ZoneCriticalIsUnsafe ==
  (/\ Ticked /\ PollTaken
   /\ \E z \in Zones :
        /\ ZoneConfig[z].enabled
        /\ \E t \in BinderZoneTemps(z, World[last.world]) : t >= ZoneConfig[z].critical_max)
    => ~last.safe

C5_StoppedFansAreUnsafe ==
  (/\ Ticked /\ last.sdrFail = "none"
   /\ \E i \in 1..Len(LastPoll) :
        /\ LastPoll[i].name \in FanNames
        /\ LastPoll[i].state = "ok"
        /\ LastPoll[i].value = 0)
    => ~last.safe

\* C6: an error raised during an iteration is caught in the loop: the worker
\* keeps running and the status reports emergency = true after the iteration.
C6_ErrorTickReportsEmergency ==
  (Ticked /\ (last.err \/ last.reason = "error")) => (running /\ in_emergency)

\* C7: in an emergency iteration both 100% commands are attempted, whether or
\* not the other one fails.
C7_BothEmergencyCommandsAttempted ==
  (Ticked /\ last.emergency_ran) =>
    /\ Issued(last.calls, 100, "chassis")
    /\ Issued(last.calls, 100, "cpu")

\* C8: in an emergency iteration, if the fans fail verification after the 100%
\* commands, set_fan_mode(Standard) is invoked and emergency = true.
C8_FailedVerifyFallsBackAndStaysEmergency ==
  (Ticked /\ last.everify = "fail") =>
    /\ IssuedMode(last.calls, "STANDARD")
    /\ in_emergency

RampStep == 5

\* C9: at the first iteration after an emergency in which the safety check
\* passes, emergency becomes false and each enabled zone with a valid
\* temperature is commanded to its curve-derived speed.
C9_RecoveryCommandsCurveSpeed ==
  [][ (in_emergency /\ last'.op = "tick" /\ last'.safe /\ ~last'.err) =>
        /\ ~in_emergency'
        /\ \A z \in Zones :
             (ZoneConfig[z].enabled /\ BinderZoneTemps(z, World[last'.world]) # {})
               => Issued(last'.calls, curves'[z].last_speed.speed, z) ]_vars

\* C10: every speed command of a normal iteration for zone Z differs from Z's
\* last commanded speed by at most ramp_step percent.
C10_RampLimited ==
  [][ (last'.op = "tick" /\ last'.safe /\ ~last'.err) =>
        \A i \in 1..Len(last'.calls) :
          last'.calls[i].op = "set_fan_speed" =>
            Abs(last'.calls[i].speed
                  - (IF current_speeds[last'.calls[i].zone] = None
                     THEN 0 ELSE current_speeds[last'.calls[i].zone])) <= RampStep ]_vars

(***************************************************************************)
(* IPMICommander: raw commands.  A command is the list command.split()     *)
(* gives; each part is kept as a TLA+ string and spelled out as a          *)
(* character sequence where the code looks inside it.                      *)
(***************************************************************************)
NetFnTokens == {"0x30", "30", "0x06", "0xGG"}
CmdTokens == {"0x45", "0x70", "0x91", "0x01", "0x02", "0xGG"}
DataTokens == {"0x02", "0x32", "0xZZ"}
\* the tokens given by callers and the parts the commander itself writes into
\* its commands
Tokens ==
  NetFnTokens \cup CmdTokens \cup DataTokens
    \cup {"0x66", "0x00", "0x5A", "0x3", "0x10", "0x20", "0x40", "0x60", "0xff",
          "0x0", "0x1", "0x2", "0x4"}

TokenChars ==
  [ t \in Tokens |->
    CASE t = "0x30" -> <<"0","x","3","0">>  [] t = "30"   -> <<"3","0">>
      [] t = "0x06" -> <<"0","x","0","6">>  [] t = "0xGG" -> <<"0","x","G","G">>
      [] t = "0x45" -> <<"0","x","4","5">>  [] t = "0x70" -> <<"0","x","7","0">>
      [] t = "0x91" -> <<"0","x","9","1">>  [] t = "0x01" -> <<"0","x","0","1">>
      [] t = "0x02" -> <<"0","x","0","2">>  [] t = "0x32" -> <<"0","x","3","2">>
      [] t = "0xZZ" -> <<"0","x","Z","Z">>  [] t = "0x66" -> <<"0","x","6","6">>
      [] t = "0x00" -> <<"0","x","0","0">>  [] t = "0x5A" -> <<"0","x","5","A">>
      [] t = "0x3"  -> <<"0","x","3">>      [] t = "0x10" -> <<"0","x","1","0">>
      [] t = "0x20" -> <<"0","x","2","0">>  [] t = "0x40" -> <<"0","x","4","0">>
      [] t = "0x60" -> <<"0","x","6","0">>  [] t = "0xff" -> <<"0","x","f","f">>
      [] t = "0x0"  -> <<"0","x","0">>      [] t = "0x1"  -> <<"0","x","1">>
      [] t = "0x2"  -> <<"0","x","2">>      [] t = "0x4"  -> <<"0","x","4">> ]

\* '0123456789abcdefABCDEF' and the value of each digit
HexDigits == <<"0","1","2","3","4","5","6","7","8","9","a","b","c","d","e","f">>
DigitValue(c) ==
  IF \E i \in 1..16 : HexDigits[i] = LowerChar(c)
  THEN (CHOOSE i \in 1..16 : HexDigits[i] = LowerChar(c)) - 1
  ELSE None

\* hex_val = p[2:] if p.startswith('0x') else p
StripPrefix(p) == IF StartsWith(p, <<"0", "x">>) THEN Suffix(p, 2) ELSE p

\* all(c in '0123456789abcdefABCDEF' for c in hex_val): true of the empty string
AllHex(hex_val) == \A i \in 1..Len(hex_val) : DigitValue(hex_val[i]) # None

RECURSIVE DigitsValue(_, _)
DigitsValue(digits, acc) ==
  IF digits = <<>> THEN acc
  ELSE DigitsValue(Tail(digits), acc * 16 + DigitValue(Head(digits)))

\* int(p, 16): an optional 0x or 0X prefix, then at least one hex digit;
\* None stands for ValueError
IntBase16(p) ==
  LET body == IF Len(p) >= 2 /\ p[1] = "0" /\ p[2] \in {"x", "X"} THEN Suffix(p, 2) ELSE p
  IN IF body # <<>> /\ AllHex(body) THEN DigitsValue(body, 0) ELSE None

\* the text functions, evaluated once for the tokens in use
HexFormatTable == {t \in Tokens : AllHex(StripPrefix(TokenChars[t]))}
IntTable == [t \in Tokens |-> IntBase16(TokenChars[t])]

Int16(t) == IntTable[t]

\* the blacklist with the warm reset left out
BlacklistColdResetOnly == {<<6, 1>>}

\* IPMICommander.BLACKLISTED_COMMANDS
BLACKLISTED_COMMANDS == {<<6, 1>>, <<6, 2>>}

\* [m.value for m in FanMode] with one member left out
ValidModesNoFull == {0, 2, 4}

\* [m.value for m in FanMode]
ValidModes == {0, 1, 2, 4}

\* _validate_raw_command(command) on parts = command.split(): "accept" when it
\* returns, otherwise the error it raises
ValidateRawCommand(parts) ==
  IF Len(parts) < 3 \/ parts[1] # "raw" THEN "accept"
  ELSE IF parts[2] \notin HexFormatTable \/ parts[3] \notin HexFormatTable THEN "malformed"
  ELSE IF Int16(parts[2]) = None \/ Int16(parts[3]) = None THEN "malformed"
  ELSE IF <<Int16(parts[2]), Int16(parts[3])>> \in BLACKLISTED_COMMANDS THEN "blacklisted"
  ELSE IF Int16(parts[2]) = 48 /\ Int16(parts[3]) = 69 /\ Len(parts) >= 5
       THEN IF Int16(parts[5]) = None THEN "malformed"
            ELSE IF Int16(parts[5]) \notin ValidModes THEN "invalid_mode"
            ELSE "accept"
  ELSE IF Int16(parts[2]) = 48 /\ Int16(parts[3]) \in {112, 145} /\ Len(parts) >= 7
       THEN IF Int16(parts[Len(parts)]) = None THEN "malformed"
            ELSE IF Int16(parts[Len(parts)]) < 0 THEN "invalid_speed"
            ELSE "accept"
  ELSE "accept"

(***************************************************************************)
(* IPMICommander: the commands its methods build.                          *)
(***************************************************************************)
Generations == {"X9", "X10", "X11", "H12", "X13"}
Unknown == "UNKNOWN"

\* the command set_fan_speed hands to _execute_ipmi_command:
\* COMMANDS[self.board_gen]["SET_FAN_SPEED"].split(), then
\* zone_id = "0x01" if zone == "cpu" else "0x00", then f"0x{hex_speed}"
SpeedCommand(board, speed_percent, zone) ==
  LET base_command ==
        CASE board = "X9"  -> <<"raw", "0x30", "0x91", "0x5A", "0x3", "0x10">>
          [] board = "H12" -> <<"raw", "0x30", "0x70", "0x66", "0x01">>
          [] OTHER         -> <<"raw", "0x30", "0x70", "0x66", "0x01", "0x00">>
      zone_id == IF zone = "cpu" THEN "0x01" ELSE "0x00"
      hex_speed == IF board = "H12" THEN H12Step(speed_percent).hex
                   ELSE StableHex(NearestPoint(speed_percent))
      hex_token ==
        CASE hex_speed = "ff" -> "0xff" [] hex_speed = "60" -> "0x60"
          [] hex_speed = "40" -> "0x40" [] hex_speed = "20" -> "0x20"
          [] hex_speed = "10" -> "0x10" [] hex_speed = "00" -> "0x00"
  IN base_command \o <<zone_id, hex_token>>

\* f"raw 0x30 0x45 0x01 {hex(mode.value)}"
ModeCommand(mode) ==
  LET mode_hex == CASE mode = "STANDARD" -> "0x0" [] mode = "FULL" -> "0x1"
                    [] mode = "OPTIMAL" -> "0x2" [] mode = "HEAVY_IO" -> "0x4"
  IN <<"raw", "0x30", "0x45", "0x01", mode_hex>>

\* the command of get_sensor_readings
SdrListCommand == <<"sdr", "list">>

(***************************************************************************)
(* _execute_ipmi_command: validation first, then up to Retries invocations *)
(* of ipmitool.  cx.status is "running" inside the loop and otherwise says *)
(* how the call ended.                                                     *)
(***************************************************************************)
Retries == 3

\* what one invocation of ipmitool can do: succeed, fail with "Device or
\* resource busy", fail with "Error in open session", fail otherwise, or raise
\* something that is not CalledProcessError

\* entry of _execute_ipmi_command(command) for the method api
Submit(api, parts, fallbacks) ==
  [api |-> api, cmd |-> parts,
   status |-> IF ValidateRawCommand(parts) = "accept" THEN "running" ELSE "rejected",
   verdict |-> ValidateRawCommand(parts),
   invocations |-> 0, last_outcome |-> "-", fallbacks |-> fallbacks]

\* the loop with "Error in open session" handled like any other failure
AttemptStatusNoSession(attempt, outcome) ==
  CASE outcome = "ok"   -> "ok"
    [] outcome = "busy" -> IF attempt = Retries - 1 THEN "error" ELSE "running"
    [] outcome = "conn" -> IF attempt = Retries - 1 THEN "command_error" ELSE "running"
    [] outcome = "fail" -> IF attempt = Retries - 1 THEN "command_error" ELSE "running"
    [] outcome = "exc"  -> IF attempt = Retries - 1 THEN "error" ELSE "running"

\* one pass of "for attempt in range(retries)": where the loop stands after it
AttemptStatus(attempt, outcome) ==
  CASE outcome = "ok"   -> "ok"
    [] outcome = "busy" -> IF attempt = Retries - 1 THEN "error" ELSE "running"
    [] outcome = "conn" -> "connection_error"
    [] outcome = "fail" -> IF attempt = Retries - 1 THEN "command_error" ELSE "running"
    [] outcome = "exc"  -> IF attempt = Retries - 1 THEN "error" ELSE "running"

AttemptResult(c, outcome) ==
  [c EXCEPT !.invocations = @ + 1, !.last_outcome = outcome,
            !.status = AttemptStatus(c.invocations, outcome)]

(***************************************************************************)
(* The methods: each builds its command and enters _execute_ipmi_command;  *)
(* NextStage gives the calls a method goes on to make once the command in  *)
(* execution has ended, and is empty when the method has returned or       *)
(* raised.                                                                 *)
(***************************************************************************)
SpeedApi(speed_percent, zone) ==
  [op |-> "set_fan_speed", percent |-> speed_percent, zone |-> zone, mode |-> "-"]

\* a method that ended before building any command
Ended(api, status) == [IdleCx EXCEPT !.api = api, !.status = status]

\* set_fan_speed(speed_percent, zone) up to its _execute_ipmi_command
SetFanSpeedEntry(board, speed_percent, zone) ==
  IF ~(0 <= speed_percent /\ speed_percent <= 100)
  THEN Ended(SpeedApi(speed_percent, zone), "value_error")
  ELSE IF board = Unknown
  THEN Ended(SpeedApi(speed_percent, zone), "unknown_board")
  ELSE Submit(SpeedApi(speed_percent, zone), SpeedCommand(board, speed_percent, zone), 0)

\* set_fan_mode(mode) up to its _execute_ipmi_command
SetFanModeEntry(mode, fallbacks) ==
  Submit([NoApi EXCEPT !.op = "set_fan_mode", !.mode = mode], ModeCommand(mode), fallbacks)

\* set_auto_mode()
SetAutoMode(fallbacks) == SetFanModeEntry("STANDARD", fallbacks)

Finished(c) == c.status \notin {"idle", "running"}

NextStage(c, board) ==
  IF ~Finished(c) THEN {}
  ELSE IF c.api.op = "set_fan_mode"
  THEN IF c.status = "ok"
       THEN {Submit([c.api EXCEPT !.op = "get_fan_mode"], <<"raw", "0x30", "0x45", "0x00">>, c.fallbacks)}
       ELSE IF c.fallbacks > 0 THEN {SetAutoMode(c.fallbacks - 1)}
       ELSE {}
  ELSE IF c.api.op = "get_fan_mode"
  THEN IF c.fallbacks > 0 THEN {SetAutoMode(c.fallbacks - 1)} ELSE {}
  ELSE IF c.api.op = "set_fan_speed" /\ board = "H12"
  THEN IF c.status = "ok"
       THEN {Submit([c.api EXCEPT !.op = "get_sensor_readings"], SdrListCommand, 0)}
       ELSE IF c.status \in {"value_error", "unknown_board", "verified"} THEN {}
       ELSE {SetAutoMode(0)}
  ELSE IF c.api.op = "get_sensor_readings"
  THEN IF c.status = "ok"
       THEN {Ended(SpeedApi(c.api.percent, c.api.zone), "verified"), SetAutoMode(1)}
       ELSE {SetAutoMode(0)}
  ELSE {}

(***************************************************************************)
(* The commander on its own: construction detects the board, then its      *)
(* methods are called one after the other, each after the previous one has *)
(* returned or raised.                                                     *)
(***************************************************************************)
MaxData == 4
RawCommands ==
  {<<"raw", n, c>> \o d : n \in NetFnTokens, c \in CmdTokens, d \in UNION {[1..k -> DataTokens] : k \in 0..MaxData}}
    \cup {<<"raw", n>> : n \in NetFnTokens} \cup {SdrListCommand}


CmdInit ==
  /\ running = FALSE
  /\ in_emergency = FALSE
  /\ current_speeds = [z \in Zones |-> None]
  /\ curves = [z \in Zones |-> NewCurve]
  /\ reading_age = 0
  /\ board_gen \in Generations
  /\ bmc_mode = "STANDARD"
  /\ bmc_duty = [z \in Zones |-> "none"]
  /\ last = Log("init", QuietEnv, Manager)
  /\ cx = IdleCx
  /\ th = IdleTh
  /\ cv = CurveObject("-", <<>>, 0, 0)
  /\ sr = NoReaders

managerVars == <<running, in_emergency, current_speeds, curves, reading_age,
                 bmc_mode, bmc_duty, last, th>>

\* detect_board_generation() called again: it ends with a generation, or
\* with UNKNOWN and an error
Detect ==
  /\ cx = IdleCx
  /\ \E g \in Generations \cup {Unknown} :
       /\ board_gen' = g
       /\ cx' = Ended([NoApi EXCEPT !.op = "detect_board_generation"],
                      IF g = Unknown THEN "error" ELSE "ok")
  /\ UNCHANGED <<managerVars, cv, sr>>

\* _execute_ipmi_command(command)
ExecRaw ==
  /\ cx = IdleCx
  /\ \E parts \in RawCommands : cx' = Submit([NoApi EXCEPT !.op = "raw"], parts, 0)
  /\ UNCHANGED <<board_gen, managerVars, cv, sr>>

\* set_fan_speed(speed_percent, zone)
ExecSetFanSpeed ==
  /\ cx = IdleCx
  /\ \E speed_percent \in (0 - 1)..101, zone \in Zones :
       cx' = SetFanSpeedEntry(board_gen, speed_percent, zone)
  /\ UNCHANGED <<board_gen, managerVars, cv, sr>>

\* set_fan_mode(mode)
ExecSetFanMode ==
  /\ cx = IdleCx
  /\ \E mode \in {"STANDARD", "FULL", "OPTIMAL", "HEAVY_IO"} : cx' = SetFanModeEntry(mode, 0)
  /\ UNCHANGED <<board_gen, managerVars, cv, sr>>

\* one invocation of ipmitool inside the loop
Attempt ==
  /\ cx.status = "running"
  /\ cx.invocations < Retries
  /\ \E outcome \in {"ok", "busy", "conn", "fail", "exc"} : cx' = AttemptResult(cx, outcome)
  /\ UNCHANGED <<board_gen, managerVars, cv, sr>>

\* the method in execution goes on to its next call
Continue ==
  /\ cx.status # "running"
  /\ \E c \in NextStage(cx, board_gen) : cx' = c
  /\ UNCHANGED <<board_gen, managerVars, cv, sr>>

\* the caller has the result; the commander is ready for the next call
Return ==
  /\ Finished(cx) /\ NextStage(cx, board_gen) = {}
  /\ cx' = IdleCx
  /\ UNCHANGED <<board_gen, managerVars, cv, sr>>

CmdNext ==
  Detect \/ ExecRaw \/ ExecSetFanSpeed \/ ExecSetFanMode \/ Attempt \/ Continue \/ Return

CmdSpec == CmdInit /\ [][CmdNext]_vars

(***************************************************************************)
(* Properties of the recorded speeds and of the commander                  *)
(***************************************************************************)
\* the percent a speed command for speed_percent puts on the wire
CommandedPercent(board, speed_percent) ==
  IF board = "H12" THEN H12Step(speed_percent).actual ELSE NearestPoint(speed_percent)

\* the last call of the handler that was a successful speed command for zone
LastSpeedCall(calls, zone) ==
  LET idx == {i \in 1..Len(calls) :
                calls[i].op = "set_fan_speed" /\ calls[i].zone = zone /\ calls[i].ok}
  IN IF idx = {} THEN 0 ELSE CHOOSE i \in idx : \A j \in idx : j <= i

\* C11: after a handler whose last successful speed command for zone Z was
\* priming, a normal update or an emergency 100% command, the recorded speed of
\* Z equals the percent that command put on the wire.
C11_RecordedSpeedIsCommanded ==
  \A z \in Zones :
    LastSpeedCall(last.calls, z) # 0 =>
      current_speeds[z] = CommandedPercent(board_gen, last.calls[LastSpeedCall(last.calls, z)].speed)

\* a raw command with a netfn and a cmd
IsRaw(parts) == Len(parts) >= 3 /\ parts[1] = "raw"

\* an optional 0x prefix followed by at least one hex digit
WellFormedHex(t) ==
  StripPrefix(TokenChars[t]) # <<>> /\ AllHex(StripPrefix(TokenChars[t]))

AllWellFormed(parts) == \A i \in 2..Len(parts) : WellFormedHex(parts[i])

NetFnIs(parts, n) == WellFormedHex(parts[2]) /\ Int16(parts[2]) = n
CmdIn(parts, cs) == WellFormedHex(parts[3]) /\ Int16(parts[3]) \in cs

\* raw 0x30 0x45 <sub> <mode>
IsModeSet(parts) ==
  IsRaw(parts) /\ NetFnIs(parts, 48) /\ CmdIn(parts, {69}) /\ Len(parts) >= 5

\* raw 0x30 0x70|0x91 <data> ... <speed>
IsSpeedSet(parts) ==
  IsRaw(parts) /\ NetFnIs(parts, 48) /\ CmdIn(parts, {112, 145}) /\ Len(parts) >= 4

IsBlacklisted(parts) == IsRaw(parts) /\ NetFnIs(parts, 6) /\ CmdIn(parts, {1, 2})

\* this step is an invocation of ipmitool for the command in execution
Dispatches == cx.status = "running" /\ cx'.cmd = cx.cmd /\ cx'.invocations = cx.invocations + 1

C13_BlacklistedRejectedBeforeDispatch ==
  IsBlacklisted(cx.cmd) =>
    /\ cx.status = "rejected"
    /\ cx.verdict = "blacklisted"
    /\ cx.invocations = 0

\* a warm reset with data bytes has been submitted and refused
C13_Witness ==
  /\ cx.cmd = <<"raw", "0x06", "0x02", "0x32">>
  /\ cx.status = "rejected"
  /\ cx.invocations = 0

MinSpeedByte == 4

\* C14: a raw speed-set command whose trailing speed byte is non-zero and below
\* the minimum (0x02) ends rejected by validation, and ipmitool is not invoked
\* for it.
C14_LowSpeedByteRejected ==
  (/\ IsSpeedSet(cx.cmd)
   /\ Len(cx.cmd) >= 6
   /\ WellFormedHex(cx.cmd[Len(cx.cmd)])
   /\ 0 < Int16(cx.cmd[Len(cx.cmd)])
   /\ Int16(cx.cmd[Len(cx.cmd)]) < MinSpeedByte)
    => (cx.status = "rejected" /\ cx.invocations = 0)

\* C15: a raw command with a token after "raw" that is not a well-formed hex
\* literal, whatever its position, ends rejected by validation.
C15_MalformedTokenRejected ==
  (IsRaw(cx.cmd) /\ ~AllWellFormed(cx.cmd)) => cx.status = "rejected"

\* what the contract calls a valid raw command
ValidRaw(parts) ==
  /\ IsRaw(parts)
  /\ AllWellFormed(parts)
  /\ ~IsBlacklisted(parts)
  /\ IsModeSet(parts) => Int16(parts[5]) \in {0, 1, 2, 4}
  /\ IsSpeedSet(parts) => Int16(parts[Len(parts)]) >= MinSpeedByte

C17_AtMostThreeAttemptsConnectionEnds ==
  [][ /\ cx'.invocations <= 3
      /\ (Dispatches /\ cx'.last_outcome = "conn") => cx'.status = "connection_error"
      /\ cx.last_outcome = "conn" => ~Dispatches ]_vars

\* the connection was lost at the second invocation, with one attempt left
C17_Witness ==
  /\ cx.invocations = 2
  /\ cx.last_outcome = "conn"
  /\ cx.status = "connection_error"

\* C18: after an invocation that failed with a command failure that is neither
\* device-busy nor a lost connection, the command is not dispatched again.
C18_OnlyBusyRetries ==
  [][ cx.last_outcome = "fail" => ~Dispatches ]_vars

\* the step table of the contract: the greatest threshold <= p and its byte
GreatestThreshold(p) ==
  CHOOSE t \in {0, 12, 25, 50, 75, 100} :
    t <= p /\ \A u \in {0, 12, 25, 50, 75, 100} : u <= p => u <= t
StepByte(t) ==
  CASE t = 0 -> "0x00" [] t = 12 -> "0x10" [] t = 25 -> "0x20"
    [] t = 50 -> "0x40" [] t = 75 -> "0x60" [] t = 100 -> "0xff"

\* C19: on H12, the command set_fan_speed(P, zone) dispatches for P in 0..100
\* carries the byte of the step with the greatest threshold <= P, and the
\* percent it reports is that threshold.
C19_H12GreatestThresholdStep ==
  (/\ board_gen = "H12"
   /\ cx.api.op = "set_fan_speed"
   /\ cx.api.percent \in 0..100
   /\ cx.invocations > 0)
    => /\ cx.cmd[Len(cx.cmd)] = StepByte(GreatestThreshold(cx.api.percent))
       /\ H12Step(cx.api.percent).actual = GreatestThreshold(cx.api.percent)

\* C20: on X10, X11, H12 and X13 the command set_fan_speed dispatches is raw
\* 0x30 0x70 0x66 0x01 zone_id speed_byte, six bytes, with zone_id 0x00 for
\* chassis and 0x01 for cpu.
C20_SixByteSpeedCommand ==
  (/\ board_gen \in {"X10", "X11", "H12", "X13"}
   /\ cx.api.op = "set_fan_speed"
   /\ cx.invocations > 0)
    => /\ Len(cx.cmd) = 7
       /\ SubSeq(cx.cmd, 1, 5) = <<"raw", "0x30", "0x70", "0x66", "0x01">>
       /\ cx.cmd[6] = (IF cx.api.zone = "cpu" THEN "0x01" ELSE "0x00")

\* the bytes round(P * 255 / 100) can mean, whichever way a tie is rounded,
\* clamped to [0x04, 0xFF]
ContinuousBytes(p) ==
  {Max2(4, Min2(255, v)) : v \in {u \in 0..255 : Abs(100 * u - 255 * p) <= 50}}

\* C21: on X10, X11 and X13, the command set_fan_speed(P, zone) dispatches for P
\* in 0..100 carries the speed byte round(P*255/100) clamped to [0x04, 0xFF].
C21_ContinuousSpeedByte ==
  (/\ board_gen \in {"X10", "X11", "X13"}
   /\ cx.api.op = "set_fan_speed"
   /\ cx.api.percent \in 0..100
   /\ cx.invocations > 0)
    => Int16(cx.cmd[Len(cx.cmd)]) \in ContinuousBytes(cx.api.percent)

\* the speed command of set_fan_speed was dispatched and has failed
SpeedDispatchFailed ==
  /\ cx.api.op = "set_fan_speed"
  /\ cx.invocations > 0
  /\ cx.status \in {"connection_error", "command_error", "error"}

\* C22: on every board generation, once the speed command of set_fan_speed has
\* failed, the next thing the commander does is set_fan_mode(Standard); the
\* call does not return before it.
C22_FailedSpeedFallsBackToStandard ==
  [][ SpeedDispatchFailed =>
        (cx'.api.op = "set_fan_mode" /\ cx'.api.mode = "STANDARD") ]_vars

(***************************************************************************)
(* Properties of the loop's order of work                                  *)
(***************************************************************************)
\* C27: in every iteration in which the zone loop dispatched a speed command,
\* the safety check of that iteration returned safe.
C27_ZoneCommandsOnlyWhenSafe ==
  (Ticked /\ last.updates > 0) => last.safe

\* a safe iteration whose zone loop commanded both zones
C27_Witness ==
  /\ Ticked
  /\ last.safe
  /\ last.updates = 2

\* the target the zone loop computed for zone z in the step
TargetOf(z) == curves'[z].last_speed.speed

\* the recorded speed the zone loop compared it with
CurrentOf(z) == IF current_speeds[z] = None THEN 0 ELSE current_speeds[z]

\* C28: in a normal iteration, for each enabled zone with a valid temperature,
\* a speed command is dispatched iff |target - recorded speed| >= 5; below the
\* threshold no command is sent and the zone's recorded speed stays as it was.
C28_ChangeGate ==
  [][ (last'.op = "tick" /\ last'.safe /\ ~last'.err) =>
        \A z \in Zones :
          (ZoneConfig[z].enabled /\ BinderZoneTemps(z, World[last'.world]) # {}) =>
            /\ (\E i \in 1..Len(last'.calls) :
                  last'.calls[i].op = "set_fan_speed" /\ last'.calls[i].zone = z)
                 <=> Abs(TargetOf(z) - CurrentOf(z)) >= 5
            /\ Abs(TargetOf(z) - CurrentOf(z)) < 5 =>
                 current_speeds'[z] = current_speeds[z] ]_vars

\* a normal iteration that commanded one zone and left the other alone
C28_Witness ==
  /\ Ticked
  /\ last.safe
  /\ ~last.err
  /\ last.world = "nominal"
  /\ last.updates = 1

\* C29: every iteration, normal or emergency, ends with the sleep.
C29_EveryTickSleeps ==
  Ticked => last.slept

(***************************************************************************)
(* ControlManager.get_status                                               *)
(***************************************************************************)
ReadCall(zone, ok) ==
  [op |-> "get_sensor_readings", speed |-> None, mode |-> "-", zone |-> zone, ok |-> ok]

\* the body of the zone loop of get_status(): _get_zone_temperature reads the
\* sensors once per base sensor of the zone, then the zone's curve is asked
StatusZone(m, zone, env) ==
  LET zt == GetZoneTemperature(zone, env)
      reads == [i \in 1..Len(ZoneConfig[zone].sensors) |-> ReadCall(zone, TRUE)]
      h == HystGetSpeed(m.curves[zone], zt.delta)
  IN IF zt.raised THEN [m EXCEPT !.calls = Append(@, ReadCall(zone, FALSE)), !.raised = TRUE]
     ELSE IF zt.delta = None THEN [m EXCEPT !.calls = @ \o reads]
     ELSE [m EXCEPT !.calls = @ \o reads, !.curves[zone] = h.curve]

RECURSIVE StatusZones(_, _, _)
StatusZones(m, zones, env) ==
  IF zones = <<>> \/ m.raised THEN m
  ELSE StatusZones(StatusZone(m, Head(zones), env), Tail(zones), env)

\* get_status(); m.calls lists the sensor reads it made
GetStatus(m, env) == StatusZones(m, EnabledZones, env)

(***************************************************************************)
(* The manager under threads: callers enter start() and stop() through     *)
(* "with self._lock", get_status() takes no lock, and the worker thread    *)
(* runs _control_loop.                                                     *)
(***************************************************************************)
\* what the sensors show while the threads run, and whether the BMC takes
\* mode commands
ThreadEnvs ==
  {e \in Envs : e.world \in {"nominal", "cr_state", "no_temp", "hot_cpu"} /\ e.sdrFail = "none"
                  /\ e.txFail \in {"none", "mode", "cpu"} /\ e.elapsed = 0
                  /\ e.smart_log = "temperature"}

\* a lock that lets everybody in
LockAlwaysFree == TRUE

\* "with self._lock" can be entered
LockFree == th.lock = "-"

\* a join that does not wait
JoinedAtOnce == TRUE

\* self._control_thread.join() returns
Joined == th.control_thread = "-" \/ th.worker[th.control_thread] = "exited"

\* a loop that never looks at the flag
KeepGoingAlways == TRUE

\* "while self._running"
KeepGoing == running

\* a thread that was started and whose loop has not exited
Alive(w) == th.worker[w] \in {"head", "body", "sleep"}

\* start(): "with self._lock: if self._running: return"
StartEnter ==
  /\ \E t \in Callers :
       /\ th.pc[t] = "idle"
       /\ LockFree
       /\ th' = [th EXCEPT !.lock = t,
                           !.pc[t] = IF running THEN "start_return" ELSE "start_body"]
  /\ UNCHANGED <<running, in_emergency, current_speeds, curves, reading_age, board_gen,
                 bmc_mode, bmc_duty, last, cx, cv, sr>>

\* start() on a running manager leaves the with block
StartReturn ==
  /\ \E t \in Callers :
       /\ th.pc[t] = "start_return"
       /\ th' = [th EXCEPT !.lock = "-", !.pc[t] = "idle"]
  /\ UNCHANGED <<running, in_emergency, current_speeds, curves, reading_age, board_gen,
                 bmc_mode, bmc_duty, last, cx, cv, sr>>

\* the rest of start(): manual mode, priming, then the worker thread, a thread
\* object that is not in use; when a command raises, start() raises and no
\* thread is created
StartBody ==
  /\ \E t \in Callers :
       /\ th.pc[t] = "start_body"
       /\ \E env \in ThreadEnvs, w \in {x \in Workers : ~Alive(x)} :
            \E m \in {StartHandler(Manager, board_gen, env)} :
               /\ Commit("start", env, m)
               /\ running' = IF m.raised THEN running ELSE TRUE
               /\ th' = IF m.raised
                        THEN [th EXCEPT !.lock = "-", !.pc[t] = "idle"]
                        ELSE [th EXCEPT !.lock = "-", !.pc[t] = "idle",
                                        !.worker[w] = "head",
                                        !.control_thread = w]
  /\ UNCHANGED <<board_gen, cx, cv, sr>>

\* stop(): "with self._lock: if not self._running: return", else
\* "self._running = False"
StopEnter ==
  /\ \E t \in Callers :
       /\ th.pc[t] = "idle"
       /\ LockFree
       /\ th' = [th EXCEPT !.lock = t,
                           !.pc[t] = IF running THEN "stop_join" ELSE "stop_return"]
  /\ running' = FALSE
  /\ UNCHANGED <<in_emergency, current_speeds, curves, reading_age, board_gen,
                 bmc_mode, bmc_duty, last, cx, cv, sr>>

\* stop() on a manager that is not running leaves the with block
StopReturn ==
  /\ \E t \in Callers :
       /\ th.pc[t] = "stop_return"
       /\ th' = [th EXCEPT !.lock = "-", !.pc[t] = "idle"]
  /\ UNCHANGED <<running, in_emergency, current_speeds, curves, reading_age, board_gen,
                 bmc_mode, bmc_duty, last, cx, cv, sr>>

\* the rest of stop(): the join has returned, the thread object is dropped,
\* automatic control is restored
StopRestore ==
  /\ \E t \in Callers :
       /\ th.pc[t] = "stop_join"
       /\ Joined
       /\ \E env \in {e \in ThreadEnvs : e.world = "nominal"} :
            \E m \in {StopHandler(Manager, env)} : Commit("stop", env, m)
       /\ th' = [th EXCEPT !.lock = "-", !.pc[t] = "idle", !.control_thread = "-",
                           !.worker = [w \in Workers |->
                                         IF w = th.control_thread THEN "none" ELSE @[w]]]
  /\ UNCHANGED <<running, board_gen, cx, cv, sr>>

\* get_status() from a caller's thread
Status ==
  /\ \E t \in Callers :
       /\ th.pc[t] = "idle"
       /\ \E env \in ThreadEnvs :
            \E m \in {GetStatus(Manager, env)} : Commit("status", env, m)
  /\ UNCHANGED <<running, board_gen, cx, th, cv, sr>>

\* the worker at "while self._running"
WorkerHead ==
  /\ \E w \in Workers :
       /\ th.worker[w] = "head"
       /\ th' = [th EXCEPT !.worker[w] = IF KeepGoing THEN "body" ELSE "exited"]
  /\ UNCHANGED <<running, in_emergency, current_speeds, curves, reading_age, board_gen,
                 bmc_mode, bmc_duty, last, cx, cv, sr>>

\* the worker runs the body of the loop up to the sleep, or up to "continue"
WorkerBody ==
  /\ \E w \in Workers :
       /\ th.worker[w] = "body"
       /\ \E env \in ThreadEnvs :
            \E m \in {ControlLoopIteration(Manager, board_gen, env)} :
               /\ Commit("tick", env, m)
               /\ th' = [th EXCEPT !.worker[w] = IF m.slept THEN "sleep" ELSE "head"]
  /\ UNCHANGED <<running, board_gen, cx, cv, sr>>

\* time.sleep(interval) returns
WorkerSleep ==
  /\ \E w \in Workers :
       /\ th.worker[w] = "sleep"
       /\ th' = [th EXCEPT !.worker[w] = "head"]
  /\ UNCHANGED <<running, in_emergency, current_speeds, curves, reading_age, board_gen,
                 bmc_mode, bmc_duty, last, cx, cv, sr>>

ThreadNext ==
  \/ StartEnter \/ StartReturn \/ StartBody
  \/ StopEnter \/ StopReturn \/ StopRestore
  \/ Status
  \/ WorkerHead \/ WorkerBody \/ WorkerSleep

ThreadSpec == Init /\ [][ThreadNext]_vars

\* what WorkerBody does to the threads: the worker leaves the body of the loop
WorkerBodyEnds ==
  \E w \in Workers :
    /\ th.worker[w] = "body"
    /\ \E nxt \in {"sleep", "head"} : th' = [th EXCEPT !.worker[w] = nxt]

\* every command the worker or stop() issues returns, and the sleep ends
ThreadFairSpec ==
  /\ ThreadSpec
  /\ WF_vars(WorkerHead)
  /\ WF_th(WorkerBodyEnds)
  /\ WF_vars(WorkerSleep)
  /\ WF_vars(StopRestore)

(***************************************************************************)
(* Properties of the threads                                               *)
(***************************************************************************)
AliveWorkers == {w \in Workers : Alive(w)}

\* the step is caller t leaving pc a for pc b
Moves(t, a, b) == th.pc[t] = a /\ th'.pc[t] = b

\* the step issued no BMC command and touched no worker thread
Quiet == last' = last /\ bmc_mode' = bmc_mode /\ bmc_duty' = bmc_duty /\ th'.worker = th.worker

\* C23: whatever the interleaving of start() and stop() calls, at most one
\* worker thread exists, and a start() that finds the manager running issues
\* no BMC command and creates no worker.
C23_OneWorkerStartIdempotent ==
  [][ /\ Cardinality({w \in Workers : th'.worker[w] \in {"head", "body", "sleep"}}) <= 1
      /\ \A t \in Callers : Moves(t, "start_return", "idle") => Quiet ]_vars

\* a second caller's start() found the worker running and is about to return
C23_Witness ==
  /\ \E t \in Callers : th.pc[t] = "start_return"
  /\ AliveWorkers # {}
  /\ running

\* the calls of the handler that are set_fan_mode(mode)
ModeCalls(calls, mode) ==
  {i \in 1..Len(calls) : calls[i].op = "set_fan_mode" /\ calls[i].mode = mode}

\* C24: stop() on a running manager goes on only after the worker has exited;
\* with restore_on_exit it then issues exactly one set_fan_mode(Standard) and
\* no speed command, no loop iteration issues a command after it, and stop()
\* on a manager that is not running issues no BMC command.
C24_StopJoinsThenRestoresOnce ==
  [][ /\ \A t \in Callers :
           /\ Moves(t, "stop_join", "idle") =>
                /\ AliveWorkers = {}
                /\ RestoreOnExit =>
                     /\ last'.op = "stop"
                     /\ Cardinality(ModeCalls(last'.calls, "STANDARD")) = 1
                     /\ Len(last'.calls) = 1
           /\ Moves(t, "stop_return", "idle") => Quiet
      /\ (last.op = "stop" /\ last' # last) => last'.op # "tick" ]_vars

\* stop() has waited for a worker that was in its loop and has restored
\* automatic control
C24_Witness ==
  /\ last.op = "stop"
  /\ ModeCalls(last.calls, "STANDARD") # {}
  /\ bmc_mode = "STANDARD"
  /\ ~running
  /\ AliveWorkers = {}

\* C25: while the worker runs, get_status() from another thread issues no
\* BMC command.
C25_StatusIssuesNoCommand ==
  [][ (AliveWorkers # {} /\ last'.op = "status" /\ last' # last) => last'.calls = <<>> ]_vars

\* C26: get_status() leaves the recorded speeds and the hysteresis memory of
\* every zone's curve as they were.
C26_StatusLeavesControlState ==
  [][ (last'.op = "status" /\ last' # last) =>
        (current_speeds' = current_speeds /\ curves' = curves) ]_vars

\* C30: once stop() has set running to false, the worker starts no new
\* iteration, and stop() returns.
C30_StopTerminates ==
  /\ [][ \A w \in Workers : (~running /\ th'.worker[w] = "body") => th.worker[w] = "body" ]_vars
  /\ \A t \in Callers : (th.pc[t] = "stop_join") ~> (th.pc[t] = "idle")

\* stop() waits for a worker that is inside an iteration, in emergency
C30_Witness ==
  /\ \E t \in Callers : th.pc[t] = "stop_join"
  /\ \E w \in Workers : th.worker[w] = "body"
  /\ in_emergency

(***************************************************************************)
(* Properties of the fan mode and of a failing dispatch                    *)
(***************************************************************************)
\* the zone loop of the last iteration dispatched a speed command
ZoneDispatched == Ticked /\ last.safe /\ last.updates > 0

\* C38: when the worker dispatches a zone speed command of a normal
\* iteration, the fan mode in force at the BMC, set by the most recent mode
\* command that went through, is manual (FULL).
C38_ZoneCommandsInManualMode ==
  [][ ZoneDispatched' => bmc_mode = "FULL" ]_vars

\* the set_fan_speed call of the zone loop that raised, in the last iteration
FailedZoneCall == last.calls[last.updates]

ZoneDispatchRaised ==
  /\ ZoneDispatched
  /\ last.err
  /\ ~FailedZoneCall.ok

\* C40: when set_fan_speed raises for a zone in a normal iteration, the
\* zone's recorded speed stays as it was and the iteration runs the emergency
\* action.
C40_FailedDispatchKeepsRecord ==
  [][ ZoneDispatchRaised' =>
        /\ current_speeds'[FailedZoneCall'.zone] = current_speeds[FailedZoneCall'.zone]
        /\ last'.emergency_ran ]_vars

\* a dispatch for zone cpu raised after zone chassis was updated
C40_Witness ==
  /\ ZoneDispatchRaised
  /\ FailedZoneCall.zone = "cpu"
  /\ last.updates = 2
  /\ last.emergency_ran

\* the last handler run was a start() that raised after its set_manual_mode()
\* had gone through
StartFailedInManual ==
  /\ last.op = "start"
  /\ last.raised
  /\ last.calls[1] = ModeCall("FULL", TRUE)

\* C39: when start() fails after it has switched the BMC to manual mode, the
\* BMC is back in Standard mode at the latest when a following stop() returns.
C39_FailedStartRestoresStandard ==
  [][ \A t \in Callers :
        (StartFailedInManual /\ Moves(t, "stop_return", "idle")) => bmc_mode' = "STANDARD" ]_vars

(***************************************************************************)
(* The curves on their own: a curve object is built, wrapped in a          *)
(* HysteresisCurve, and get_speed is called on the curve and on the        *)
(* wrapper with one delta after the other.                                 *)
(***************************************************************************)
CurveInit ==
  /\ running = FALSE
  /\ in_emergency = FALSE
  /\ current_speeds = [z \in Zones |-> None]
  /\ curves = [z \in Zones |-> NewCurve]
  /\ reading_age = 0
  /\ board_gen = "H12"
  /\ bmc_mode = "STANDARD"
  /\ bmc_duty = [z \in Zones |-> "none"]
  /\ last = Log("init", QuietEnv, Manager)
  /\ cx = IdleCx
  /\ th = IdleTh
  /\ cv \in CurveObjects
  /\ sr = NoReaders

\* curve.get_speed(temp_delta) on the base curve
CurveGetSpeed ==
  /\ \E temp_delta \in DeltaValues :
       cv' = [cv EXCEPT !.delta = temp_delta, !.out = CurveGet(cv, temp_delta), !.via = "curve"]
  /\ UNCHANGED <<board_gen, cx, managerVars, sr>>

\* HysteresisCurve.get_speed(temp_delta)
HysteresisGetSpeed ==
  /\ \E temp_delta \in DeltaValues :
       \E r \in {HysteresisGet([last_temp |-> cv.last_temp, last_speed |-> cv.last_speed],
                               temp_delta, cv.hysteresis, CurveGet(cv, temp_delta))} :
          cv' = [cv EXCEPT !.delta = temp_delta, !.out = r.info, !.via = "hysteresis",
                           !.last_temp = r.curve.last_temp,
                           !.last_speed = r.curve.last_speed]
  /\ UNCHANGED <<board_gen, cx, managerVars, sr>>

CurveNext == CurveGetSpeed \/ HysteresisGetSpeed

CurveSpec == CurveInit /\ [][CurveNext]_vars

(***************************************************************************)
(* Properties of the curves                                                *)
(***************************************************************************)
\* the step is a call of HysteresisCurve.get_speed
HysteresisCalled == cv'.via = "hysteresis" /\ cv' # cv

\* the memory of the HysteresisCurve after the step holds this delta and result
Remembers(temp_delta, result) == cv'.last_temp = temp_delta /\ cv'.last_speed = result

StepThreshold(name) ==
  SpeedSteps[CHOOSE i \in 1..Len(SpeedSteps) : SpeedSteps[i].name = name].threshold

\* the step the fixed tiers give for a delta
TierStep(temp_delta) ==
  IF temp_delta >= 15 THEN "full"
  ELSE IF temp_delta >= 10 THEN "high"
  ELSE IF temp_delta >= 5 THEN "medium"
  ELSE "low"

\* C32: the stable-step curve maps a delta of 15 or more to the step full,
\* of 10 up to 15 to high, of 5 up to 10 to medium, and below 5 to low.
C32_StableStepTiers ==
  (cv.kind = "stable" /\ cv.via = "curve") =>
    cv.out.num = StepThreshold(TierStep(cv.delta)) * cv.out.den

\* C33: the speed a Linear, Step or StableStep curve returns lies within
\* [min_speed, max_speed], for deltas below the first point and above the
\* last as well.
C33_SpeedWithinLimits ==
  cv.via = "curve" =>
    /\ cv.min_speed * cv.out.den <= cv.out.num
    /\ cv.out.num <= cv.max_speed * cv.out.den

\* a linear curve asked above its last point, whose speed is over max_speed
C33_Witness ==
  /\ cv.kind = "linear" /\ cv.via = "curve"
  /\ cv.delta > cv.points[Len(cv.points)].temp
  /\ cv.points[Len(cv.points)].speed > cv.max_speed
  /\ cv.out.num = cv.max_speed * cv.out.den

(***************************************************************************)
(* The sensor readers (sensors.py) and IPMICommander.get_sensor_readings   *)
(* (commander.py).  A reading in a history is kept with its age, the time  *)
(* since its timestamp; a text is a sequence of characters.                *)
(***************************************************************************)
\* reading_timeout and min_readings of CombinedTemperatureReader.__init__
ReadingTimeout == 30
MinReadings == 2

\* ages are counted up to here; every age above ReadingTimeout is expired
MaxReadingAge == 40

\* self.sensor_names of the SensorReader
Monitored == {"CPU1 Temp"}

\* lines of the output of "sdr list"
SdrLines ==
  [ text \in { "CPU1 Temp | 45.000 degrees C | ok",
               "CPU1 Temp | 90.000 degrees C | cr",
               "CPU1 Temp | no reading | ns",
               "CPU1 Temp | | ok",
               "CPU1 Temp | 45.000 degrees C | nc",
               "CPU1 Temp | invalid | ok",
               "CPU1 Temp | 0x2d | OK",
               "System Temp | 35.000 degrees C | ok",
               "FAN1 | 1500 RPM | ok",
               "Invalid line" } |->
    CASE text = "CPU1 Temp | 45.000 degrees C | ok" ->
           <<"C","P","U","1"," ","T","e","m","p"," ","|"," ","4","5",".","0","0","0"," ","d","e","g","r","e","e","s"," ","C"," ","|"," ","o","k">>
      [] text = "CPU1 Temp | 90.000 degrees C | cr" ->
           <<"C","P","U","1"," ","T","e","m","p"," ","|"," ","9","0",".","0","0","0"," ","d","e","g","r","e","e","s"," ","C"," ","|"," ","c","r">>
      [] text = "CPU1 Temp | no reading | ns" ->
           <<"C","P","U","1"," ","T","e","m","p"," ","|"," ","n","o"," ","r","e","a","d","i","n","g"," ","|"," ","n","s">>
      [] text = "CPU1 Temp | | ok" ->
           <<"C","P","U","1"," ","T","e","m","p"," ","|"," ","|"," ","o","k">>
      [] text = "CPU1 Temp | 45.000 degrees C | nc" ->
           <<"C","P","U","1"," ","T","e","m","p"," ","|"," ","4","5",".","0","0","0"," ","d","e","g","r","e","e","s"," ","C"," ","|"," ","n","c">>
      [] text = "CPU1 Temp | invalid | ok" ->
           <<"C","P","U","1"," ","T","e","m","p"," ","|"," ","i","n","v","a","l","i","d"," ","|"," ","o","k">>
      [] text = "CPU1 Temp | 0x2d | OK" ->
           <<"C","P","U","1"," ","T","e","m","p"," ","|"," ","0","x","2","d"," ","|"," ","O","K">>
      [] text = "System Temp | 35.000 degrees C | ok" ->
           <<"S","y","s","t","e","m"," ","T","e","m","p"," ","|"," ","3","5",".","0","0","0"," ","d","e","g","r","e","e","s"," ","C"," ","|"," ","o","k">>
      [] text = "FAN1 | 1500 RPM | ok" ->
           <<"F","A","N","1"," ","|"," ","1","5","0","0"," ","R","P","M"," ","|"," ","o","k">>
      [] text = "Invalid line" ->
           <<"I","n","v","a","l","i","d"," ","l","i","n","e">> ]

\* the outputs of "sdr list" the readers are run on, each a list of lines
Polls ==
  { << "CPU1 Temp | 45.000 degrees C | ok", "System Temp | 35.000 degrees C | ok",
       "FAN1 | 1500 RPM | ok" >>,
    << "CPU1 Temp | 90.000 degrees C | cr", "System Temp | 35.000 degrees C | ok" >>,
    << "CPU1 Temp | no reading | ns", "Invalid line" >>,
    << "CPU1 Temp | | ok" >>,
    << "CPU1 Temp | 45.000 degrees C | nc" >>,
    << "CPU1 Temp | invalid | ok" >>,
    << "CPU1 Temp | 0x2d | OK", "System Temp | 35.000 degrees C | ok" >>,
    << "System Temp | 35.000 degrees C | ok", "FAN1 | 1500 RPM | ok" >>,
    << >> }

\* str.split(sep) for a separator of one character
RECURSIVE Split(_, _)
Split(s, sep) ==
  IF \E i \in 1..Len(s) : s[i] = sep
  THEN LET i == CHOOSE k \in 1..Len(s) : s[k] = sep /\ \A j \in 1..(k - 1) : s[j] # sep
       IN <<SubSeq(s, 1, i - 1)>> \o Split(Suffix(s, i), sep)
  ELSE <<s>>

\* str.strip() for texts whose only white space is the space
Strip(s) ==
  LET inked == {i \in 1..Len(s) : s[i] # " "}
  IN IF inked = {} THEN <<>>
     ELSE SubSeq(s, CHOOSE i \in inked : \A j \in inked : i <= j,
                    CHOOSE i \in inked : \A j \in inked : i >= j)

\* float(num_str) for a text of decimal digits with at most one point, the
\* digits after the point all 0; None stands for ValueError
ParseFloat(num_str) ==
  LET parts == Split(num_str, ".")
      whole == parts[1]
      frac == IF Len(parts) = 2 THEN parts[2] ELSE <<>>
      Decimal(c) == DigitValue(c) # None /\ DigitValue(c) < 10
      RECURSIVE Value(_, _)
      Value(digits, acc) ==
        IF digits = <<>> THEN acc ELSE Value(Tail(digits), acc * 10 + DigitValue(Head(digits)))
  IN IF /\ Len(parts) <= 2
        /\ whole \o frac # <<>>
        /\ \A i \in 1..Len(whole) : Decimal(whole[i])
        /\ \A i \in 1..Len(frac) : frac[i] = "0"
     THEN Value(whole, 0)
     ELSE None

\* IPMICommander.get_sensor_readings on the lines of the output: the readings
\* it returns, each with name, value (None when absent) and state
RECURSIVE GetSensorReadings(_)
GetSensorReadings(lines) ==
  IF lines = <<>> THEN <<>>
  ELSE LET parts == Split(Head(lines), "|")
           name == Strip(parts[1])
           value_str == Strip(parts[2])
           state == Lower(Strip(parts[3]))
           num_str == SelectSeq(Split(value_str, " ")[1], LAMBDA c : c # "°")
           parsed == IF StartsWith(num_str, <<"0", "x">>)
                     THEN IntBase16(num_str) ELSE ParseFloat(num_str)
           reading == IF state # <<"n", "s">> /\ value_str # <<>>
                      THEN IF parsed = None
                           THEN [name |-> name, value |-> None, state |-> <<"n", "s">>]
                           ELSE [name |-> name, value |-> parsed, state |-> state]
                      ELSE [name |-> name, value |-> None, state |-> state]
       IN (IF Len(parts) >= 3 THEN <<reading>> ELSE <<>>) \o GetSensorReadings(Tail(lines))

\* the readings get_sensor_readings returns for each output
PollReadings ==
  [p \in Polls |-> GetSensorReadings([i \in 1..Len(p) |-> SdrLines[p[i]]])]

\* a history after dt seconds
Aged(history, dt) ==
  [i \in 1..Len(history) |->
     [history[i] EXCEPT !.age = IF @ + dt > MaxReadingAge THEN MaxReadingAge ELSE @ + dt]]

\* a history with the reading of now appended and the old readings removed
Appended(history, value, state) ==
  SelectSeq(Append(history, [value |-> value, state |-> state, age |-> 0]),
            LAMBDA r : r.age <= ReadingTimeout)

\* SensorReader.update_readings on the readings of one poll
RECURSIVE IpmiUpdate(_, _)
IpmiUpdate(readings, polled) ==
  IF polled = <<>> THEN readings
  ELSE LET r == Head(polled)
           hit == {n \in Monitored : Chars[n] = r.name}
           name == CHOOSE n \in hit : TRUE
       IN IpmiUpdate(IF hit = {} THEN readings
                     ELSE [readings EXCEPT ![name] = Appended(@, r.value, r.state)],
                     Tail(polled))

\* NVMETemperatureReader.update_readings for the one drive
NvmeUpdate(readings, run) ==
  IF run = "temperature" THEN Appended(readings, 40, <<"o", "k">>) ELSE readings

\* get_sensor_stats that takes the last reading appended as the current one
StatsOfLastAppended(readings) ==
  LET valid_readings ==
        SelectSeq(readings, LAMBDA r : /\ r.age <= ReadingTimeout
                                       /\ r.state # <<"n", "s">> /\ r.value # None)
      values == Values(valid_readings)
  IN IF Len(valid_readings) < MinReadings
     THEN [some |-> FALSE, current |-> None, min |-> None, max |-> None]
     ELSE [some |-> TRUE, current |-> readings[Len(readings)].value,
           min |-> SeqMin(values), max |-> SetMax(SeqToSet(values))]

\* SensorReader.get_sensor_stats on the history of one sensor; some is FALSE
\* for the result None
GetSensorStats(readings) ==
  LET valid_readings ==
        SelectSeq(readings, LAMBDA r : /\ r.age <= ReadingTimeout
                                       /\ r.state # <<"n", "s">> /\ r.value # None)
      values == Values(valid_readings)
  IN IF Len(valid_readings) < MinReadings
     THEN [some |-> FALSE, current |-> None, min |-> None, max |-> None]
     ELSE [some |-> TRUE, current |-> valid_readings[Len(valid_readings)].value,
           min |-> SeqMin(values), max |-> SetMax(SeqToSet(values))]

\* CombinedTemperatureReader.update_readings, dt seconds after the step
\* before: the IPMI reader, then the NVMe reader; an IPMIError of the poll
\* and an uncaught exception of the NVMe reader leave the call
UpdateReadings ==
  /\ \E dt \in {15, 40}, run \in {"temperature", "no_temperature", "exit_status", "os_error"} :
       \/ sr' = [sr EXCEPT !.ipmi = [n \in Monitored |-> Aged(sr.ipmi[n], dt)],
                           !.nvme = Aged(sr.nvme, dt),
                           !.polled = <<>>, !.op = "update", !.raised = TRUE,
                           !.asked = "-", !.stats = GetSensorStats(<<>>)]
       \/ \E p \in Polls :
            sr' = [sr EXCEPT !.ipmi = IpmiUpdate([n \in Monitored |-> Aged(sr.ipmi[n], dt)],
                                                 PollReadings[p]),
                             !.nvme = NvmeUpdate(Aged(sr.nvme, dt), run),
                             !.polled = PollReadings[p], !.op = "update",
                             !.raised = NvmeRaises(run),
                             !.asked = "-", !.stats = GetSensorStats(<<>>)]
  /\ UNCHANGED <<board_gen, cx, managerVars, cv>>

\* time passes between two calls
Elapse ==
  /\ \E dt \in {15, 40} :
       sr' = [sr EXCEPT !.ipmi = [n \in Monitored |-> Aged(sr.ipmi[n], dt)],
                        !.nvme = Aged(sr.nvme, dt),
                        !.op = "elapse", !.asked = "-", !.stats = GetSensorStats(<<>>)]
  /\ UNCHANGED <<board_gen, cx, managerVars, cv>>

\* get_sensor_stats(sensor_name) of the IPMI reader
SensorStats ==
  /\ \E sensor_name \in Monitored :
       sr' = [sr EXCEPT !.op = "stats", !.asked = sensor_name,
                        !.stats = GetSensorStats(sr.ipmi[sensor_name])]
  /\ UNCHANGED <<board_gen, cx, managerVars, cv>>

SensorNext == UpdateReadings \/ Elapse \/ SensorStats

\* a reader just constructed, on an H12 board
SensorInit == Init /\ board_gen = "H12"

SensorSpec == SensorInit /\ [][SensorNext]_vars

(***************************************************************************)
(* Properties of the sensor readers                                        *)
(***************************************************************************)
\* the history get_sensor_stats was asked about
AskedHistory == sr.ipmi[sr.asked]

\* the places of its readings that are not expired and valid
ValidPlaces ==
  { i \in 1..Len(AskedHistory) :
      /\ AskedHistory[i].age <= ReadingTimeout
      /\ AskedHistory[i].state # <<"n", "s">>
      /\ AskedHistory[i].value # None }

C35_HistoriesWithinTimeout ==
  (sr.op = "update" /\ ~sr.raised) =>
    /\ \A n \in Monitored : \A i \in 1..Len(sr.ipmi[n]) : sr.ipmi[n][i].age <= ReadingTimeout
    /\ \A i \in 1..Len(sr.nvme) : sr.nvme[i].age <= ReadingTimeout

\* C36: every reading get_sensor_readings emits has a state in {ok, cr, ns},
\* and an emitted reading without a value has the state ns.
C36_EmittedStatesCanonical ==
  \A i \in 1..Len(sr.polled) :
    /\ sr.polled[i].state \in {<<"o", "k">>, <<"c", "r">>, <<"n", "s">>}
    /\ sr.polled[i].value = None => sr.polled[i].state = <<"n", "s">>

(***************************************************************************)
(* Properties of a failing NVMe source                                     *)
(***************************************************************************)
\* C37: a failure of the NVMe source alone, the IPMI readings being healthy,
\* keeps neither the IPMI store from being updated nor the safety check from
\* passing; the iteration does not put the controller into emergency.
C37_NvmeFailureIsHarmless ==
  (Ticked /\ last.smart_log # "temperature") =>
     /\ last.safe
     /\ in_emergency = FALSE

====
